---- MODULE Spec2Model ----
(***************************************************************************)
(* Model of funcoes.py: the CDA readers (open_cda_1 .. open_cda_8 and     *)
(* pl_fundo) and the portfolio-composition functions (fundo_cnpj, ...).    *)
(*                                                                         *)
(* A DataFrame is a record [columns, rows, error]: `columns` is the        *)
(* ordered list of column names, `rows` the sequence of rows, each row a   *)
(* function from "index" and the column names to values, and `error` the   *)
(* exception an operation raised on the way ("none" when there is none).   *)
(* Market values are integers (every value used is exactly representable   *)
(* as a float64); a quotient of two of them is kept as the exact fraction, *)
(* with a zero denominator standing for the IEEE results of a division by  *)
(* zero (NaN, +inf, -inf).  Dates are integers YYYYMMDD once parsed.       *)
(***************************************************************************)
EXTENDS Integers, Sequences, FiniteSets, TLC

VARIABLES
    path,   \* the file df was read from, or the kind of table the caller built
    df,     \* the table handed to the function called (read from `path`)
    df_benchmark, \* the second table handed to it ("none" when it takes one)
    precos, \* what the external provider answers to a request
    pedidos, \* the requests the call issued to the external provider
    call,   \* the function called last ("none" before any call)
    cnpj,   \* the cnpj argument of that call ("none" when it has none)
    ret,    \* what the call returned: slice name -> DataFrame
    exc     \* the exception that ended the call, "none" if it returned

vars == <<path, df, df_benchmark, precos, pedidos, call, cnpj, ret, exc>>

(***************************************************************************)
(* Bounds                                                                  *)
(***************************************************************************)
MaxRows == 2

(***************************************************************************)
(* Arithmetic helpers                                                      *)
(***************************************************************************)
Abs(x) == IF x < 0 THEN -x ELSE x

RECURSIVE Gcd(_, _)
Gcd(a, b) == IF b = 0 THEN a ELSE Gcd(b, a % b)

Sign(x) == IF x > 0 THEN 1 ELSE IF x < 0 THEN -1 ELSE 0

\* float division x / y as numpy performs it: no exception on a zero divisor
\* (0/0 is NaN = [n |-> 0, d |-> 0], x/0 is +-inf = [n |-> +-1, d |-> 0])
TrueDiv(x, y) ==
    IF y = 0 THEN [n |-> Sign(x), d |-> 0]
    ELSE LET g == Gcd(Abs(x), Abs(y))
         IN  [n |-> (Sign(y) * x) \div g, d |-> Abs(y) \div g]

IsNaN(q) == q.d = 0 /\ q.n = 0
IsFinite(q) == q.d /= 0
Frac(a, b) == TrueDiv(a, b)
One == [n |-> 1, d |-> 1]

\* q1 + q2 on finite fractions
FracAdd(q1, q2) == TrueDiv(q1.n * q2.d + q2.n * q1.d, q1.d * q2.d)

(***************************************************************************)
(* DataFrame operations                                                    *)
(***************************************************************************)
Range(s) == {s[i] : i \in DOMAIN s}

Perms(n) == {p \in [1..n -> 1..n] : \A i, j \in 1..n : i /= j => p[i] /= p[j]}

\* df.loc[mask]: the rows whose column `col` is in `vals`, in table order
loc_rows(t, col, vals) ==
    IF t.error /= "none" THEN t
    ELSE IF col \notin Range(t.columns) THEN [t EXCEPT !.error = "KeyError"]
    ELSE [t EXCEPT !.rows = SelectSeq(t.rows, LAMBDA r : r[col] \in vals)]

\* df[cols] / df.loc[:, cols]: KeyError when a requested column is missing
loc_cols(t, cols) ==
    IF t.error /= "none" THEN t
    ELSE IF \E i \in DOMAIN cols : cols[i] \notin Range(t.columns)
         THEN [t EXCEPT !.error = "KeyError"]
    ELSE [t EXCEPT !.columns = cols,
                   !.dtypes = [c \in Range(cols) |-> t.dtypes[c]],
                   !.rows = [i \in DOMAIN t.rows |->
                               [c \in Range(cols) \cup {"index"} |-> t.rows[i][c]]]]

\* every arrangement of the rows of t that is ordered by the key `by`
Ordenacoes(t, by, asc) ==
    LET n == Len(t.rows)
        ok(p) == \A i \in 1..(n - 1) :
                   IF asc THEN t.rows[p[i]][by] <= t.rows[p[i + 1]][by]
                          ELSE t.rows[p[i]][by] >= t.rows[p[i + 1]][by]
    IN  {[t EXCEPT !.rows = [i \in 1..n |-> t.rows[p[i]]]] :
            p \in {q \in Perms(n) : ok(q)}}

\* faulty variant of sort_values: the ascending flag is inverted
sort_values_invertido(t, by, asc) ==
    IF t.error /= "none" THEN {t}
    ELSE IF by \notin Range(t.columns) THEN {[t EXCEPT !.error = "KeyError"]}
    ELSE Ordenacoes(t, by, ~asc)

\* DataFrame.sort_values(by=col, ascending=asc) with the default
\* kind='quicksort': the result is ordered by the key, and the order of rows
\* with equal keys is whatever the sort of the build produces.
sort_values(t, by, asc) ==
    IF t.error /= "none" THEN {t}
    ELSE IF by \notin Range(t.columns) THEN {[t EXCEPT !.error = "KeyError"]}
    ELSE Ordenacoes(t, by, asc)

RECURSIVE SumCol(_, _)
\* Series.sum() of an integer-valued column (0 for an empty column)
SumCol(rows, col) ==
    IF rows = <<>> THEN 0 ELSE rows[1][col] + SumCol(Tail(rows), col)

\* df[col] = values: a column of the given dtype is added (or overwritten)
set_col(t, col, values, dtype) ==
    IF t.error /= "none" THEN t
    ELSE [t EXCEPT !.columns = IF col \in Range(t.columns) THEN t.columns
                               ELSE Append(t.columns, col),
                   !.dtypes = (col :> dtype) @@ t.dtypes,
                   !.rows = [i \in DOMAIN t.rows |->
                               (col :> values[i]) @@ t.rows[i]]]

\* df.rename(columns={old: new})
rename(t, old, new) ==
    IF t.error /= "none" \/ old \notin Range(t.columns) THEN t
    ELSE [t EXCEPT !.columns = [i \in DOMAIN t.columns |->
                                  IF t.columns[i] = old THEN new ELSE t.columns[i]],
                   !.dtypes = [c \in ((DOMAIN t.dtypes) \ {old}) \cup {new} |->
                                 IF c = new THEN t.dtypes[old] ELSE t.dtypes[c]],
                   !.rows = [i \in DOMAIN t.rows |->
                               [c \in ((DOMAIN t.rows[i]) \ {old}) \cup {new} |->
                                  IF c = new THEN t.rows[i][old] ELSE t.rows[i][c]]]]

\* df.set_index(col): the column leaves the columns and becomes the index
set_index(t, col) ==
    IF t.error /= "none" THEN t
    ELSE IF col \notin Range(t.columns) THEN [t EXCEPT !.error = "KeyError"]
    ELSE [t EXCEPT !.columns = SelectSeq(t.columns, LAMBDA c : c /= col),
                   !.dtypes = [c \in (DOMAIN t.dtypes) \ {col} |-> t.dtypes[c]],
                   !.rows = [i \in DOMAIN t.rows |->
                               [c \in (DOMAIN t.rows[i]) \ {col} |->
                                  IF c = "index" THEN t.rows[i][col]
                                  ELSE t.rows[i][c]]]]

(***************************************************************************)
(* Category Splitter: fundo_cnpj, fundo_cnpj_acoes, fundo_cnpj_debentures, *)
(* fundo_cnpj_opcoes                                                       *)
(***************************************************************************)
Acoes == "Ações"
BDR == "Brazilian Depository Receipt - BDR"
Exterior == "Investimento no Exterior"
CotasFundos == "Cotas de Fundos"
TitulosPublicos == "Títulos Públicos"
VendidoAcoes == "Obrigações por ações e outros TVM recebidos em empréstimo"
Debentures == "Debêntures"
OpcoesTitulares == "Opções - Posições titulares"
OpcoesLancadas == "Opções - Posições lançadas"

RECURSIVE MaxCol(_, _)
MaxCol(rows, col) ==
    IF rows = <<>> THEN 0
    ELSE LET m == MaxCol(Tail(rows), col)
         IN  IF Len(rows) = 1 \/ rows[1][col] > m THEN rows[1][col] ELSE m

\* faulty variant of porcentagem: the weight is taken against the largest position
porcentagem_do_maximo(x, df_cat) ==
    TrueDiv(x, MaxCol(df_cat.rows, "VL_MERC_POS_FINAL"))

\* faulty variant of porcentagem: a zero total is guarded and weighs 0
porcentagem_guardada(x, df_cat) ==
    IF SumCol(df_cat.rows, "VL_MERC_POS_FINAL") = 0 THEN [n |-> 0, d |-> 1]
    ELSE TrueDiv(x, SumCol(df_cat.rows, "VL_MERC_POS_FINAL"))

\* the lambda of every category block: x / df_cat['VL_MERC_POS_FINAL'].sum()
porcentagem(x, df_cat) == TrueDiv(x, SumCol(df_cat.rows, "VL_MERC_POS_FINAL"))

\* faulty variant of set_porcentagem: no column is created for a table without rows
set_porcentagem_sem_coluna(df_cat) ==
    IF df_cat.rows = <<>> THEN df_cat
    ELSE set_col(df_cat, "PORCENTAGEM",
                 [i \in DOMAIN df_cat.rows |->
                    porcentagem(df_cat.rows[i]["VL_MERC_POS_FINAL"], df_cat)],
                 "float64")

\* faulty variant of set_porcentagem: each row is weighed against the total
\* of its own reporting date
set_porcentagem_por_data(df_cat) ==
    set_col(df_cat, "PORCENTAGEM",
            [i \in DOMAIN df_cat.rows |->
               TrueDiv(df_cat.rows[i]["VL_MERC_POS_FINAL"],
                       SumCol(SelectSeq(df_cat.rows, LAMBDA r :
                                r["DT_COMPTC"] = df_cat.rows[i]["DT_COMPTC"]),
                              "VL_MERC_POS_FINAL"))],
            "float64")

\* df_cat['PORCENTAGEM'] = list(map(porcentagem, df_cat['VL_MERC_POS_FINAL']))
set_porcentagem(df_cat) ==
    set_col(df_cat, "PORCENTAGEM",
            [i \in DOMAIN df_cat.rows |->
               porcentagem(df_cat.rows[i]["VL_MERC_POS_FINAL"], df_cat)],
            "float64")

\* faulty variant of filt_categoria: the label is matched as a prefix (str.startswith)
filt_categoria_prefixo(fundo_espec, label) ==
    loc_rows(fundo_espec, "TP_APLIC",
             IF label = "Ações"
             THEN {label, "Ações e outros TVM cedidos em empréstimo"} ELSE {label})

\* fundo_espec.loc[fundo_espec['TP_APLIC'] == label]
filt_categoria(fundo_espec, label) == loc_rows(fundo_espec, "TP_APLIC", {label})

\* faulty variant of filt_cnpj: the mask is computed and not applied
filt_cnpj_sem_filtro(d, c) == d

\* filt_cnpj = df['CNPJ_FUNDO'] == cnpj; fundo_espec = df.loc[filt_cnpj]
filt_cnpj(d, c) == loc_rows(d, "CNPJ_FUNDO", {c})

ColsCategoria == <<"DENOM_SOCIAL", "CD_ATIVO", "PORCENTAGEM", "VL_MERC_POS_FINAL">>
ColsAcoes == <<"DT_COMPTC", "DENOM_SOCIAL", "CD_ATIVO", "PORCENTAGEM", "VL_MERC_POS_FINAL">>
ColsOpcoes == <<"DT_COMPTC", "DENOM_SOCIAL", "CD_ATIVO", "PORCENTAGEM",
                "VL_MERC_POS_FINAL", "DT_INI_VIGENCIA", "DT_FIM_VIGENCIA">>

\* faulty variant of categoria: the weight is taken against all positions of the fund
categoria_sobre_o_fundo(fundo_espec, label) ==
    {loc_cols(set_col(s, "PORCENTAGEM",
                      [i \in DOMAIN s.rows |->
                         porcentagem(s.rows[i]["VL_MERC_POS_FINAL"], fundo_espec)],
                      "float64"),
              ColsCategoria) :
        s \in sort_values(filt_categoria(fundo_espec, label),
                          "VL_MERC_POS_FINAL", FALSE)}

\* one category block of fundo_cnpj / fundo_cnpj_debentures: filter by label,
\* sort by market value descending, add PORCENTAGEM, keep four columns
categoria(fundo_espec, label) ==
    {loc_cols(set_porcentagem(s), ColsCategoria) :
        s \in sort_values(filt_categoria(fundo_espec, label),
                          "VL_MERC_POS_FINAL", FALSE)}

\* the block of fundo_cnpj_acoes: as above, then DT_COMPTC becomes the index 'data'
categoria_acoes(fundo_espec) ==
    {set_index(rename(loc_cols(set_porcentagem(s), ColsAcoes), "DT_COMPTC", "data"),
               "data") :
        s \in sort_values(filt_categoria(fundo_espec, Acoes),
                          "VL_MERC_POS_FINAL", FALSE)}

\* faulty variant of categoria_opcoes: ordered like the other categories, by market value
categoria_opcoes_por_valor(fundo_espec, label) ==
    {set_index(rename(loc_cols(set_porcentagem(s), ColsOpcoes), "DT_COMPTC", "data"),
               "data") :
        s \in sort_values(filt_categoria(fundo_espec, label),
                          "VL_MERC_POS_FINAL", FALSE)}

\* one block of fundo_cnpj_opcoes: sorted by DT_COMPTC ascending, indexed by 'data'
categoria_opcoes(fundo_espec, label) ==
    {set_index(rename(loc_cols(set_porcentagem(s), ColsOpcoes), "DT_COMPTC", "data"),
               "data") :
        s \in sort_values(filt_categoria(fundo_espec, label), "DT_COMPTC", TRUE)}

\* the possible return values of fundo_cnpj(df, cnpj)
fundo_cnpj(d, c) ==
    LET fundo_espec == filt_cnpj(d, c)
    IN  {[df_acoes |-> a, df_bdr |-> b, df_exterior |-> e, df_cotas_fundos |-> f,
          df_titulos_pub |-> t, df_vendido_acoes |-> v] :
            a \in categoria(fundo_espec, Acoes),
            b \in categoria(fundo_espec, BDR),
            e \in categoria(fundo_espec, Exterior),
            f \in categoria(fundo_espec, CotasFundos),
            t \in categoria(fundo_espec, TitulosPublicos),
            v \in categoria(fundo_espec, VendidoAcoes)}

fundo_cnpj_acoes(d, c) ==
    {[df_acoes |-> a] : a \in categoria_acoes(filt_cnpj(d, c))}

fundo_cnpj_debentures(d, c) ==
    {[df_debentures |-> a] : a \in categoria(filt_cnpj(d, c), Debentures)}

fundo_cnpj_opcoes(d, c) ==
    LET fundo_espec == filt_cnpj(d, c)
    IN  {[df_opcoes_compradas |-> a, df_opcoes_vendidas |-> b] :
            a \in categoria_opcoes(fundo_espec, OpcoesTitulares),
            b \in categoria_opcoes(fundo_espec, OpcoesLancadas)}

(***************************************************************************)
(* Schema Normalizer: open_cda_1, open_cda_2, open_cda_4, open_cda_4_v2,   *)
(* open_cda_7, open_cda_8 and pl_fundo                                     *)
(***************************************************************************)
Nenhuma == "<nenhuma>"

\* faulty variant of resolve_col: a missing pair falls back to the old name
resolve_col_sem_erro(t, antigo, novo) ==
    IF novo \in Range(t.columns) /\ antigo \notin Range(t.columns) THEN novo
    ELSE antigo

\* if antigo in df.columns: ... elif novo in df.columns: ... else: raise ValueError
resolve_col(t, antigo, novo) ==
    IF antigo \in Range(t.columns) THEN antigo
    ELSE IF novo \in Range(t.columns) THEN novo
    ELSE Nenhuma

tp_fundo_col(t) == resolve_col(t, "TP_FUNDO", "TP_FUNDO_CLASSE")
cnpj_fundo_col(t) == resolve_col(t, "CNPJ_FUNDO", "CNPJ_FUNDO_CLASSE")
nm_fundo_cota_col(t) ==
    resolve_col(t, "NM_FUNDO_COTA", "NM_FUNDO_CLASSE_SUBCLASSE_COTA")

\* raise ValueError(...)
raise_ValueError(t) == [t EXCEPT !.error = "ValueError"]

\* faulty variant of FI: the filter of the readers of fund classes
FI_ou_FIF == {"FI", "CLASSES - FIF"}

\* df[tp_fundo_col] == 'FI'
FI == {"FI"}

\* df[tp_fundo_col].isin(['FI', 'CLASSES - FIF'])
FI_FIF == {"FI", "CLASSES - FIF"}

\* Series.astype(str) of a column of text
Str(v) == v

\* Series.astype(float) of a column of decimal text
ToFloat(v) ==
    CASE v = "0.00" -> 0
      [] v = "100.00" -> 100
      [] v = "200.00" -> 200
      [] v = "300.00" -> 300

\* pd.to_datetime of a column of ISO dates
ToDatetime(v) ==
    CASE v = "2024-01-31" -> 20240131
      [] v = "2024-02-29" -> 20240229

\* the conversion each cast of the readers applies
Converte(dtype, v) ==
    CASE dtype = "object" -> Str(v)
      [] dtype = "float64" -> ToFloat(v)
      [] dtype = "datetime64[ns]" -> ToDatetime(v)

\* df[col] = df[col].astype(...) / pd.to_datetime(df[col])
astype(t, col, dtype) ==
    IF t.error /= "none" THEN t
    ELSE IF col \notin Range(t.columns) THEN [t EXCEPT !.error = "KeyError"]
    ELSE [t EXCEPT !.dtypes[col] = dtype,
                   !.rows = [i \in DOMAIN t.rows |->
                               [t.rows[i] EXCEPT ![col] = Converte(dtype, @)]]]

\* df.drop(col, axis=1)
drop(t, col) ==
    IF t.error /= "none" THEN t
    ELSE IF col \notin Range(t.columns) THEN [t EXCEPT !.error = "KeyError"]
    ELSE loc_cols(t, SelectSeq(t.columns, LAMBDA c : c /= col))

\* the eight casts that end every open_cda reader
\* faulty variant of transforma_dtypes: rows that repeat the fund, date and
\* asset of an earlier row are dropped
transforma_dtypes_sem_repetidas(t) ==
    IF t.error /= "none" THEN t
    ELSE LET u == [t EXCEPT !.rows = SelectSeq(t.rows, LAMBDA r :
                      \A o \in {x \in Range(t.rows) : x["index"] < r["index"]} :
                        \/ o["CNPJ_FUNDO"] /= r["CNPJ_FUNDO"]
                        \/ o["DT_COMPTC"] /= r["DT_COMPTC"]
                        \/ o["CD_ATIVO"] /= r["CD_ATIVO"])]
         IN  astype(astype(astype(astype(astype(astype(astype(astype(u,
                 "TP_FUNDO", "object"),
                 "CNPJ_FUNDO", "object"),
                 "DENOM_SOCIAL", "object"),
                 "DT_COMPTC", "datetime64[ns]"),
                 "TP_APLIC", "object"),
                 "TP_ATIVO", "object"),
                 "VL_MERC_POS_FINAL", "float64"),
                 "CD_ATIVO", "object")

transforma_dtypes(t) ==
    astype(astype(astype(astype(astype(astype(astype(astype(t,
        "TP_FUNDO", "object"),
        "CNPJ_FUNDO", "object"),
        "DENOM_SOCIAL", "object"),
        "DT_COMPTC", "datetime64[ns]"),
        "TP_APLIC", "object"),
        "TP_ATIVO", "object"),
        "VL_MERC_POS_FINAL", "float64"),
        "CD_ATIVO", "object")

\* faulty variant of renomeia: only the asset column is renamed
renomeia_so_ativo(t, tp, cn, ativo) == rename(t, ativo, "CD_ATIVO")

\* df.rename(columns={tp: 'TP_FUNDO', cn: 'CNPJ_FUNDO', ativo: 'CD_ATIVO'})
renomeia(t, tp, cn, ativo) ==
    rename(rename(rename(t, tp, "TP_FUNDO"), cn, "CNPJ_FUNDO"), ativo, "CD_ATIVO")

ColsPrincipais(tp, cn) ==
    <<tp, cn, "DENOM_SOCIAL", "DT_COMPTC", "TP_APLIC", "TP_ATIVO", "VL_MERC_POS_FINAL">>

\* df['TP_TITPUB'] = df['TP_TITPUB'] + ' ' + df['DT_VENC']
\* faulty variant of mescla_titpub: the two values are joined without a space
mescla_titpub_sem_espaco(t) ==
    IF t.error /= "none" THEN t
    ELSE set_col(t, "TP_TITPUB",
                 [i \in DOMAIN t.rows |->
                    t.rows[i]["TP_TITPUB"] \o t.rows[i]["DT_VENC"]],
                 "object")

mescla_titpub(t) ==
    IF t.error /= "none" THEN t
    ELSE set_col(t, "TP_TITPUB",
                 [i \in DOMAIN t.rows |->
                    t.rows[i]["TP_TITPUB"] \o " " \o t.rows[i]["DT_VENC"]],
                 "object")

open_cda_1(d) ==
    LET tp == tp_fundo_col(d)
        cn == cnpj_fundo_col(d)
    IN  IF tp = Nenhuma \/ cn = Nenhuma THEN {raise_ValueError(d)}
        ELSE LET filtrado == loc_rows(d, tp, FI)
                 mantido == loc_cols(filtrado,
                                ColsPrincipais(tp, cn) \o <<"TP_TITPUB", "DT_VENC">>)
                 mesclado == drop(mescla_titpub(mantido), "DT_VENC")
             IN  {transforma_dtypes(renomeia(mesclado, tp, cn, "TP_TITPUB"))}

open_cda_2(d) ==
    LET tp == tp_fundo_col(d)
        cn == cnpj_fundo_col(d)
        nm == nm_fundo_cota_col(d)
    IN  IF tp = Nenhuma \/ cn = Nenhuma \/ nm = Nenhuma THEN {raise_ValueError(d)}
        ELSE LET filtrado == loc_rows(d, tp, FI)
                 mantido == loc_cols(filtrado, ColsPrincipais(tp, cn) \o <<nm>>)
             IN  {transforma_dtypes(renomeia(mantido, tp, cn, nm))}

open_cda_4(d) ==
    LET tp == tp_fundo_col(d)
        cn == cnpj_fundo_col(d)
    IN  IF tp = Nenhuma \/ cn = Nenhuma THEN {raise_ValueError(d)}
        ELSE LET filtrado == loc_rows(d, tp, FI_FIF)
                 mantido == loc_cols(filtrado, ColsPrincipais(tp, cn) \o <<"CD_ATIVO">>)
             IN  {transforma_dtypes(renomeia(mantido, tp, cn, "CD_ATIVO"))}

open_cda_4_v2(d) ==
    LET tp == tp_fundo_col(d)
        cn == cnpj_fundo_col(d)
    IN  IF tp = Nenhuma \/ cn = Nenhuma THEN {raise_ValueError(d)}
        ELSE LET filtrado == loc_rows(d, tp, FI_FIF)
                 mantido == loc_cols(filtrado,
                                ColsPrincipais(tp, cn)
                                  \o <<"CD_ATIVO", "DT_INI_VIGENCIA", "DT_FIM_VIGENCIA">>)
             IN  {transforma_dtypes(renomeia(mantido, tp, cn, "CD_ATIVO"))}

open_cda_7(d) ==
    LET tp == tp_fundo_col(d)
        cn == cnpj_fundo_col(d)
    IN  IF tp = Nenhuma \/ cn = Nenhuma THEN {raise_ValueError(d)}
        ELSE LET filtrado == loc_rows(d, tp, FI)
                 mantido == loc_cols(filtrado, ColsPrincipais(tp, cn) \o <<"EMISSOR">>)
             IN  {transforma_dtypes(renomeia(mantido, tp, cn, "EMISSOR"))}

\* faulty variant of filt_bdr_acoes: the public bonds of the file are kept too
filt_com_titulos == {BDR, Acoes, TitulosPublicos}

\* filt = (df['TP_APLIC'] == 'Brazilian Depository Receipt - BDR') | (df['TP_APLIC'] == 'Ações')
filt_bdr_acoes == {BDR, Acoes}

open_cda_8(d) ==
    LET tp == tp_fundo_col(d)
        cn == cnpj_fundo_col(d)
    IN  IF tp = Nenhuma \/ cn = Nenhuma THEN {raise_ValueError(d)}
        ELSE LET filtrado == loc_rows(d, tp, FI)
                 mantido == loc_cols(filtrado, ColsPrincipais(tp, cn) \o <<"DS_ATIVO">>)
                 normal == transforma_dtypes(renomeia(mantido, tp, cn, "DS_ATIVO"))
             IN  sort_values(loc_rows(normal, "TP_APLIC", filt_bdr_acoes),
                             "VL_MERC_POS_FINAL", FALSE)

\* the Series fundo_espec['VL_PATRIM_LIQ'] is kept as a table of one column
pl_fundo(d, c) ==
    LET tp == tp_fundo_col(d)
        cn == cnpj_fundo_col(d)
    IN  IF tp = Nenhuma \/ cn = Nenhuma THEN {raise_ValueError(d)}
        ELSE LET filtrado == loc_rows(d, tp, FI_FIF)
                 fundo_espec == loc_rows(filtrado, cn, {c})
             IN  {loc_cols(fundo_espec, <<"VL_PATRIM_LIQ">>)}

(***************************************************************************)
(* Calls.  Each behaviour hands one table to one function once.            *)
(***************************************************************************)
NoRet == [none |-> "None"]

\* the exception a result carries, "none" when every table is sound
ErrorOf(r) ==
    IF \A k \in DOMAIN r : r[k].error = "none" THEN "none"
    ELSE r[CHOOSE k \in DOMAIN r : r[k].error /= "none"].error

\* faulty variant of entrada_apos: the new column is assigned on the table
\* of the caller
entrada_com_coluna(d) ==
    IF "rows" \in DOMAIN d
    THEN set_col(d, "PORCENTAGEM", [i \in DOMAIN d.rows |-> [n |-> 0, d |-> 0]], "float64")
    ELSE d

\* the table of the caller once the call is over: the functions assign their
\* new columns (PORCENTAGEM, taxa_unit, performance) to frames that
\* .loc[mask], sort_values, pd.DataFrame(...).rename and pd.concat created,
\* never to the parameter
entrada_apos(d) == d

Returns(name, c, r) ==
    /\ call' = name
    /\ cnpj' = c
    /\ exc' = ErrorOf(r)
    /\ ret' = IF ErrorOf(r) = "none" THEN r ELSE NoRet
    /\ df' = entrada_apos(df)
    /\ df_benchmark' = entrada_apos(df_benchmark)
    /\ UNCHANGED <<path, precos, pedidos>>

\* the state of what a call does not take
SemBenchmark == [none |-> "None"]
SemProvedor == [none |-> "None"]

(***************************************************************************)
(* Inputs of the Category Splitter: normalized position tables             *)
(***************************************************************************)
CnpjA == "11.111.111/0001-11"
CnpjB == "22.222.222/0001-22"
CnpjAusente == "99.999.999/0001-99"
Cnpjs == {CnpjA, CnpjB}
CnpjArgs == Cnpjs \cup {CnpjAusente}

DenomSocial(c) == IF c = CnpjA THEN "FUNDO A FIA" ELSE "FUNDO B FIM"

\* a TP_APLIC value of the CDA files that is none of the nine labels
OutraAplic == "Ações e outros TVM cedidos em empréstimo"

Labels == {Acoes, BDR, Exterior, CotasFundos, TitulosPublicos, VendidoAcoes,
           Debentures, OpcoesTitulares, OpcoesLancadas}
Aplics == Labels \cup {OutraAplic}

\* the other TP_APLIC value the rows of one input table may carry
OutraDe(a) ==
    CASE a = Acoes -> BDR
      [] a = BDR -> Exterior
      [] a = Exterior -> CotasFundos
      [] a = CotasFundos -> TitulosPublicos
      [] a = TitulosPublicos -> VendidoAcoes
      [] a = VendidoAcoes -> Debentures
      [] a = Debentures -> OpcoesTitulares
      [] a = OpcoesTitulares -> OpcoesLancadas
      [] a = OpcoesLancadas -> OutraAplic
      [] OTHER -> Acoes

Vals == {0, 100}
ValsExemplo == {100, 200, 300}
Datas == {20240131, 20240229}
CdAtivos == <<"PETR4", "VALE3", "ITUB4", "BBDC4", "ABEV3">>

ColsNorm == <<"TP_FUNDO", "CNPJ_FUNDO", "DENOM_SOCIAL", "DT_COMPTC", "TP_APLIC",
              "TP_ATIVO", "VL_MERC_POS_FINAL", "CD_ATIVO",
              "DT_INI_VIGENCIA", "DT_FIM_VIGENCIA">>

NormRow(i, c, a, v, d) ==
    [c2 \in Range(ColsNorm) \cup {"index"} |->
       CASE c2 = "index" -> i - 1
         [] c2 = "TP_FUNDO" -> "FI"
         [] c2 = "CNPJ_FUNDO" -> c
         [] c2 = "DENOM_SOCIAL" -> DenomSocial(c)
         [] c2 = "DT_COMPTC" -> d
         [] c2 = "TP_APLIC" -> a
         [] c2 = "TP_ATIVO" -> "Ativo"
         [] c2 = "VL_MERC_POS_FINAL" -> v
         [] c2 = "CD_ATIVO" -> CdAtivos[i]
         [] c2 = "DT_INI_VIGENCIA" -> d
         [] c2 = "DT_FIM_VIGENCIA" -> d + 10000]

\* the dtypes every reader gives the canonical columns
DtypeNorm(c) ==
    CASE c = "DT_COMPTC" -> "datetime64[ns]"
      [] c = "VL_MERC_POS_FINAL" -> "float64"
      [] OTHER -> "object"

Tabela(rows) ==
    [columns |-> ColsNorm, error |-> "none", rows |-> rows,
     dtypes |-> [c \in Range(ColsNorm) |-> DtypeNorm(c)]]

\* report dates of the rows of a table: they decide the order of the option
\* slices only, so they vary where a row may be an option
DatasDe(a) ==
    IF {a, OutraDe(a)} \cap {OpcoesTitulares, OpcoesLancadas} /= {}
    THEN Datas ELSE {20240131}

\* every table of at most MaxRows rows whose rows carry one of two TP_APLIC values
TabelaGeral(d) ==
    \E n \in 0..MaxRows, a \in Aplics :
      \E cs \in [1..n -> Cnpjs], as \in [1..n -> {a, OutraDe(a)}],
         vs \in [1..n -> Vals], ds \in [1..n -> DatasDe(a)] :
           d = Tabela([i \in 1..n |-> NormRow(i, cs[i], as[i], vs[i], ds[i])])

\* the worked example: one fund holds three positions of one category valued
\* 100, 200 and 300 (in any order, at any dates) and one position of another
TabelaExemplo(d) ==
    \E a \in Labels :
      \E vs \in {f \in [1..3 -> ValsExemplo] : \A i, j \in 1..3 : i /= j => f[i] /= f[j]},
         ds \in [1..3 -> Datas] :
           d = Tabela([i \in 1..4 |->
                         IF i <= 3 THEN NormRow(i, CnpjA, a, vs[i], ds[i])
                         ELSE NormRow(i, CnpjA, OutraDe(a), 300, 20240131)])

\* one fund holds two positions of one category whose market values cancel
TabelaCancela(d) ==
    \E a \in Labels :
      d = Tabela(<<NormRow(1, CnpjA, a, 100, 20240131),
                   NormRow(2, CnpjA, a, -100, 20240131)>>)

Call_fundo_cnpj ==
    /\ call = "none" /\ path = "none"
    /\ \E c \in CnpjArgs : \E r \in fundo_cnpj(df, c) : Returns("fundo_cnpj", c, r)

Call_fundo_cnpj_acoes ==
    /\ call = "none" /\ path = "none"
    /\ \E c \in CnpjArgs : \E r \in fundo_cnpj_acoes(df, c) :
          Returns("fundo_cnpj_acoes", c, r)

Call_fundo_cnpj_debentures ==
    /\ call = "none" /\ path = "none"
    /\ \E c \in CnpjArgs : \E r \in fundo_cnpj_debentures(df, c) :
          Returns("fundo_cnpj_debentures", c, r)

Call_fundo_cnpj_opcoes ==
    /\ call = "none" /\ path = "none"
    /\ \E c \in CnpjArgs : \E r \in fundo_cnpj_opcoes(df, c) :
          Returns("fundo_cnpj_opcoes", c, r)

(***************************************************************************)
(* Inputs of the readers: the CDA files                                    *)
(***************************************************************************)
BLC_1 == "cda_fi_BLC_1"
BLC_2 == "cda_fi_BLC_2"
BLC_4 == "cda_fi_BLC_4"
BLC_7 == "cda_fi_BLC_7"
BLC_8 == "cda_fi_BLC_8"
PL == "cda_fi_PL"
Paths == {BLC_1, BLC_2, BLC_4, BLC_7, BLC_8, PL}

TiposFundo == {"FI", "CLASSES - FIF", "FIDC"}

\* which names of a pair of column names a file carries
Presencas == {"antigo", "novo", "ambos", "nenhum"}

ColsPar(pres, antigo, novo) ==
    CASE pres = "antigo" -> <<antigo>>
      [] pres = "novo" -> <<novo>>
      [] pres = "ambos" -> <<antigo, novo>>
      [] pres = "nenhum" -> <<>>

ColsPosicao == <<"TP_APLIC", "TP_ATIVO", "QT_POS_FINAL", "VL_MERC_POS_FINAL">>

ColsArquivo(p, ptp, pcn, pnm) ==
    ColsPar(ptp, "TP_FUNDO", "TP_FUNDO_CLASSE")
      \o ColsPar(pcn, "CNPJ_FUNDO", "CNPJ_FUNDO_CLASSE")
      \o <<"DENOM_SOCIAL", "DT_COMPTC">>
      \o (CASE p = BLC_1 -> ColsPosicao \o <<"TP_TITPUB", "DT_VENC">>
            [] p = BLC_2 -> ColsPosicao
                              \o ColsPar(pnm, "NM_FUNDO_COTA",
                                         "NM_FUNDO_CLASSE_SUBCLASSE_COTA")
            [] p = BLC_4 -> ColsPosicao
                              \o <<"CD_ATIVO", "DT_INI_VIGENCIA", "DT_FIM_VIGENCIA">>
            [] p = BLC_7 -> ColsPosicao \o <<"EMISSOR">>
            [] p = BLC_8 -> ColsPosicao \o <<"DS_ATIVO">>
            [] p = PL -> <<"VL_PATRIM_LIQ">>)

\* what the second column of a pair holds when a file carries both names
TipoNaClasse == "CLASSES - FIF"
CnpjNaClasse == CnpjAusente

AplicsDoArquivo(p) ==
    CASE p = BLC_1 -> {TitulosPublicos}
      [] p = BLC_2 -> {CotasFundos}
      [] p = BLC_4 -> {Acoes}
      [] p = BLC_7 -> {Exterior}
      [] p = BLC_8 -> {Acoes, BDR, TitulosPublicos}
      [] p = PL -> {Acoes}

ValoresDoArquivo(p) == IF p = BLC_8 THEN {"100.00", "200.00"} ELSE {"100.00"}

\* the funds whose positions a file reports
CnpjsDoArquivo(p) == IF p = PL THEN Cnpjs ELSE {CnpjA}

TitPubs == <<"LTN", "NTN-B", "LFT", "NTN-F", "NTN-C">>

LinhaArquivo(cols, ptp, pcn, i, k, tp, cn, ap, vl) ==
    [c \in Range(cols) \cup {"index"} |->
       CASE c = "index" -> i - 1
         [] c = "TP_FUNDO" -> tp
         [] c = "TP_FUNDO_CLASSE" -> IF ptp = "ambos" THEN TipoNaClasse ELSE tp
         [] c = "CNPJ_FUNDO" -> cn
         [] c = "CNPJ_FUNDO_CLASSE" -> IF pcn = "ambos" THEN CnpjNaClasse ELSE cn
         [] c = "DENOM_SOCIAL" -> DenomSocial(cn)
         [] c = "DT_COMPTC" -> "2024-01-31"
         [] c = "TP_APLIC" -> ap
         [] c = "TP_ATIVO" -> "Ativo"
         [] c = "QT_POS_FINAL" -> "10.00"
         [] c = "VL_MERC_POS_FINAL" -> vl
         [] c = "TP_TITPUB" -> TitPubs[k]
         [] c = "DT_VENC" -> "2029-01-01"
         [] c = "NM_FUNDO_COTA" -> "FUNDO COTA"
         [] c = "NM_FUNDO_CLASSE_SUBCLASSE_COTA" -> "CLASSE COTA"
         [] c = "CD_ATIVO" -> CdAtivos[k]
         [] c = "DT_INI_VIGENCIA" -> "2024-01-31"
         [] c = "DT_FIM_VIGENCIA" -> "2024-02-29"
         [] c = "EMISSOR" -> CdAtivos[k]
         [] c = "DS_ATIVO" -> CdAtivos[k]
         [] c = "VL_PATRIM_LIQ" -> 1000 * i]

DtypeArquivo(c) == IF c = "VL_PATRIM_LIQ" THEN "float64" ELSE "object"

\* whether the rows of a file may all name the same asset: the position
\* files can, the net-worth file names none
Repeticoes(p) == IF p = PL THEN {FALSE} ELSE BOOLEAN

\* every file of at most MaxRows rows, under every combination of the old and
\* new column names, its rows naming distinct assets or all the same asset
Arquivo(p, d) ==
    \E ptp \in Presencas, pcn \in Presencas, repetido \in Repeticoes(p),
       pnm \in (IF p = BLC_2 THEN Presencas ELSE {"antigo"}), n \in 0..MaxRows :
      \E tps \in [1..n -> TiposFundo], cns \in [1..n -> CnpjsDoArquivo(p)],
         aps \in [1..n -> AplicsDoArquivo(p)], vls \in [1..n -> ValoresDoArquivo(p)] :
           LET cols == ColsArquivo(p, ptp, pcn, pnm)
           IN  d = [columns |-> cols, error |-> "none",
                    dtypes |-> [c \in Range(cols) |-> DtypeArquivo(c)],
                    rows |-> [i \in 1..n |->
                                LinhaArquivo(cols, ptp, pcn, i, IF repetido THEN 1 ELSE i,
                                             tps[i], cns[i], aps[i], vls[i])]]

InitLeitura ==
    /\ path \in Paths
    /\ Arquivo(path, df)
    /\ df_benchmark = SemBenchmark
    /\ precos = SemProvedor
    /\ pedidos = 0
    /\ call = "none"
    /\ cnpj = "none"
    /\ ret = NoRet
    /\ exc = "none"

Call_open_cda_1 ==
    /\ call = "none" /\ path = BLC_1
    /\ \E r \in open_cda_1(df) : Returns("open_cda_1", "none", [df |-> r])

Call_open_cda_2 ==
    /\ call = "none" /\ path = BLC_2
    /\ \E r \in open_cda_2(df) : Returns("open_cda_2", "none", [df |-> r])

Call_open_cda_4 ==
    /\ call = "none" /\ path = BLC_4
    /\ \E r \in open_cda_4(df) : Returns("open_cda_4", "none", [df |-> r])

Call_open_cda_4_v2 ==
    /\ call = "none" /\ path = BLC_4
    /\ \E r \in open_cda_4_v2(df) : Returns("open_cda_4_v2", "none", [df |-> r])

Call_open_cda_7 ==
    /\ call = "none" /\ path = BLC_7
    /\ \E r \in open_cda_7(df) : Returns("open_cda_7", "none", [df |-> r])

Call_open_cda_8 ==
    /\ call = "none" /\ path = BLC_8
    /\ \E r \in open_cda_8(df) : Returns("open_cda_8", "none", [df |-> r])

Call_pl_fundo ==
    /\ call = "none" /\ path = PL
    /\ \E c \in CnpjArgs : \E r \in pl_fundo(df, c) :
          Returns("pl_fundo", c, [VL_PATRIM_LIQ |-> r])

NextLeitura ==
    \/ Call_open_cda_1
    \/ Call_open_cda_2
    \/ Call_open_cda_4
    \/ Call_open_cda_4_v2
    \/ Call_open_cda_7
    \/ Call_open_cda_8
    \/ Call_pl_fundo

SpecLeitura == InitLeitura /\ [][NextLeitura]_vars

(***************************************************************************)
(* The Position Filter and the Category Splitter take a normalized table;  *)
(* pl_fundo takes the cda_fi_PL file.                                      *)
(***************************************************************************)
InitSplit ==
    /\ \/ path = "none" /\ (TabelaGeral(df) \/ TabelaExemplo(df) \/ TabelaCancela(df))
       \/ path = PL /\ Arquivo(PL, df)
    /\ df_benchmark = SemBenchmark
    /\ precos = SemProvedor
    /\ pedidos = 0
    /\ call = "none"
    /\ cnpj = "none"
    /\ ret = NoRet
    /\ exc = "none"

NextSplit ==
    \/ Call_fundo_cnpj
    \/ Call_fundo_cnpj_acoes
    \/ Call_fundo_cnpj_debentures
    \/ Call_fundo_cnpj_opcoes
    \/ Call_pl_fundo

SpecSplit == InitSplit /\ [][NextSplit]_vars

(***************************************************************************)
(* Properties of the readers                                               *)
(***************************************************************************)
Col(rows, c) == [i \in DOMAIN rows |-> rows[i][c]]

Leitores == {"open_cda_1", "open_cda_2", "open_cda_4", "open_cda_4_v2",
             "open_cda_7", "open_cda_8", "pl_fundo"}

Tem(c) == c \in Range(df.columns)

FaltaPar(antigo, novo) == ~Tem(antigo) /\ ~Tem(novo)

FaltaColuna ==
    \/ FaltaPar("TP_FUNDO", "TP_FUNDO_CLASSE")
    \/ FaltaPar("CNPJ_FUNDO", "CNPJ_FUNDO_CLASSE")
    \/ call = "open_cda_2" /\ FaltaPar("NM_FUNDO_COTA", "NM_FUNDO_CLASSE_SUBCLASSE_COTA")

\* the column of a pair the claims say is read: the old name when it is there
Usada(antigo, novo) == IF Tem(antigo) THEN antigo ELSE novo

\* the table a reader returned
Saida == ret[CHOOSE k \in DOMAIN ret : TRUE]

\* the row of the file an output row comes from
Entrada(r) == df.rows[r["index"] + 1]

Aceitos(f) ==
    IF f \in {"open_cda_4", "open_cda_4_v2", "pl_fundo"}
    THEN {"FI", "CLASSES - FIF"} ELSE {"FI"}

\* C4: a reader ends with ValueError, returning nothing, when the file has
\* neither name of the fund-type pair or of the cnpj pair (for open_cda_2 also
\* of the cota-name pair); with one name of each pair there is no such error,
\* and with both names of a pair the old one is the one read.
C4_ErroDeEsquema ==
    call \in Leitores =>
      /\ FaltaColuna => (exc = "ValueError" /\ ret = NoRet)
      /\ ~FaltaColuna => exc = "none"
      /\ exc = "none" =>
           \A i \in DOMAIN Saida.rows :
             LET r == Saida.rows[i]
             IN  /\ (Tem("TP_FUNDO") /\ call /= "pl_fundo") =>
                      r["TP_FUNDO"] = Entrada(r)["TP_FUNDO"]
                 /\ (Tem("CNPJ_FUNDO") /\ call /= "pl_fundo") =>
                      r["CNPJ_FUNDO"] = Entrada(r)["CNPJ_FUNDO"]
                 /\ (Tem("CNPJ_FUNDO") /\ call = "pl_fundo") =>
                      Entrada(r)["CNPJ_FUNDO"] = cnpj
                 /\ (Tem("NM_FUNDO_COTA") /\ call = "open_cda_2") =>
                      r["CD_ATIVO"] = Entrada(r)["NM_FUNDO_COTA"]
      /\ (exc = "none" /\ Tem("TP_FUNDO")) =>
           \A j \in DOMAIN df.rows :
             (df.rows[j]["TP_FUNDO"] \notin Aceitos(call)) =>
               \A i \in DOMAIN Saida.rows : Saida.rows[i]["index"] /= j - 1

C4_Witness ==
    /\ call = "open_cda_2" /\ exc = "ValueError" /\ ret = NoRet
    /\ Tem("TP_FUNDO") /\ Tem("CNPJ_FUNDO_CLASSE")
    /\ FaltaPar("NM_FUNDO_COTA", "NM_FUNDO_CLASSE_SUBCLASSE_COTA")
    /\ Len(df.rows) = 2
    /\ \A i \in DOMAIN df.rows : df.rows[i]["TP_FUNDO"] = "FI"

Leitores5 == {"open_cda_1", "open_cda_2", "open_cda_4", "open_cda_7", "open_cda_8"}

Leitor(f, d) ==
    CASE f = "open_cda_1" -> open_cda_1(d)
      [] f = "open_cda_2" -> open_cda_2(d)
      [] f = "open_cda_4" -> open_cda_4(d)
      [] f = "open_cda_7" -> open_cda_7(d)
      [] f = "open_cda_8" -> open_cda_8(d)

NomesAntigos == <<"TP_FUNDO", "CNPJ_FUNDO", "NM_FUNDO_COTA">>
NomesNovos == <<"TP_FUNDO_CLASSE", "CNPJ_FUNDO_CLASSE", "NM_FUNDO_CLASSE_SUBCLASSE_COTA">>

\* the same file with its columns named the other way
Renomeado(d, de, para) ==
    rename(rename(rename(d, de[1], para[1]), de[2], para[2]), de[3], para[3])

\* the file names its columns one way only, and names every pair the reader needs
SoNomes(nomes, outros) ==
    /\ Tem(nomes[1]) /\ Tem(nomes[2]) /\ (call = "open_cda_2" => Tem(nomes[3]))
    /\ \A i \in 1..3 : ~Tem(outros[i])

ColsCanonicas == <<"TP_FUNDO", "CNPJ_FUNDO", "DENOM_SOCIAL", "DT_COMPTC", "TP_APLIC",
                   "TP_ATIVO", "VL_MERC_POS_FINAL", "CD_ATIVO">>

\* C5: open_cda_1, _2, _4, _7 and _8 return, for a file whose columns carry
\* the old names and for the same rows under the new names, tables with the
\* same column names in the same order, the same dtypes and the same rows;
\* the columns are the eight canonical ones.
C5_MesmaSaidaNasDuasConvencoes ==
    (call \in Leitores5 /\ (SoNomes(NomesAntigos, NomesNovos)
                              \/ SoNomes(NomesNovos, NomesAntigos))) =>
      LET outro == IF Tem("TP_FUNDO") THEN Renomeado(df, NomesAntigos, NomesNovos)
                   ELSE Renomeado(df, NomesNovos, NomesAntigos)
      IN  /\ exc = "none"
          /\ ret["df"] \in Leitor(call, outro)
          /\ \A t \in Leitor(call, outro) : t.error = "none"
          /\ ret["df"].columns = ColsCanonicas
          /\ ret["df"].dtypes = [c \in Range(ColsCanonicas) |-> DtypeNorm(c)]

C5_Witness ==
    /\ call = "open_cda_1" /\ exc = "none"
    /\ SoNomes(NomesNovos, NomesAntigos)
    /\ Len(df.rows) = 2 /\ Len(ret["df"].rows) = 2
    /\ ret["df"].columns = ColsCanonicas
    /\ ret["df"].rows[2]["TP_FUNDO"] = "FI"
    /\ ret["df"].rows[2]["CNPJ_FUNDO"] = CnpjA
    /\ ret["df"].rows[2]["DT_COMPTC"] = 20240131
    /\ ret["df"].rows[2]["VL_MERC_POS_FINAL"] = 100

\* C6: every row a reader returns (pl_fundo: uses) has an accepted fund type,
\* 'FI' for open_cda_1, _2, _7 and _8, 'FI' or 'CLASSES - FIF' for open_cda_4,
\* open_cda_4_v2 and pl_fundo, and the fund-type filter drops no row with an
\* accepted fund type, whichever column name carried it.
C6_FiltroTipoFundo ==
    (call \in Leitores /\ exc = "none") =>
      LET tp == Usada("TP_FUNDO", "TP_FUNDO_CLASSE")
          cn == Usada("CNPJ_FUNDO", "CNPJ_FUNDO_CLASSE")
      IN  /\ \A i \in DOMAIN Saida.rows :
               /\ Entrada(Saida.rows[i])[tp] \in Aceitos(call)
               /\ call /= "pl_fundo" => Saida.rows[i]["TP_FUNDO"] \in Aceitos(call)
          /\ \A j \in DOMAIN df.rows :
               (/\ df.rows[j][tp] \in Aceitos(call)
                /\ call = "open_cda_8" => df.rows[j]["TP_APLIC"] \in {BDR, Acoes}
                /\ call = "pl_fundo" => df.rows[j][cn] = cnpj) =>
                 \E i \in DOMAIN Saida.rows : Saida.rows[i]["index"] = j - 1

C6_Witness ==
    /\ call = "open_cda_4" /\ exc = "none"
    /\ Tem("TP_FUNDO_CLASSE") /\ ~Tem("TP_FUNDO")
    /\ Col(df.rows, "TP_FUNDO_CLASSE") = <<"FIDC", "CLASSES - FIF">>
    /\ Col(ret["df"].rows, "TP_FUNDO") = <<"CLASSES - FIF">>
    /\ Col(ret["df"].rows, "index") = <<1>>

(***************************************************************************)
(* Properties of the Category Splitter                                     *)
(***************************************************************************)
SplitCalls == {"fundo_cnpj", "fundo_cnpj_acoes", "fundo_cnpj_debentures",
               "fundo_cnpj_opcoes"}

\* the category each returned table is documented to hold
LabelDe(k) ==
    CASE k = "df_acoes" -> Acoes
      [] k = "df_bdr" -> BDR
      [] k = "df_exterior" -> Exterior
      [] k = "df_cotas_fundos" -> CotasFundos
      [] k = "df_titulos_pub" -> TitulosPublicos
      [] k = "df_vendido_acoes" -> VendidoAcoes
      [] k = "df_debentures" -> Debentures
      [] k = "df_opcoes_compradas" -> OpcoesTitulares
      [] k = "df_opcoes_vendidas" -> OpcoesLancadas

\* the tables each function is documented to return
FatiasDe(f) ==
    CASE f = "fundo_cnpj" -> {"df_acoes", "df_bdr", "df_exterior", "df_cotas_fundos",
                              "df_titulos_pub", "df_vendido_acoes"}
      [] f = "fundo_cnpj_acoes" -> {"df_acoes"}
      [] f = "fundo_cnpj_debentures" -> {"df_debentures"}
      [] f = "fundo_cnpj_opcoes" -> {"df_opcoes_compradas", "df_opcoes_vendidas"}

\* the positions of fund c in category a, in the order of the input table
Posicoes(c, a) ==
    SelectSeq(df.rows, LAMBDA r : r["CNPJ_FUNDO"] = c /\ r["TP_APLIC"] = a)

TotalFatia(c, a) == SumCol(Posicoes(c, a), "VL_MERC_POS_FINAL")

\* the row of the input table that holds the asset code cd
Origem(cd) == CHOOSE r \in Range(df.rows) : r["CD_ATIVO"] = cd

\* position in the input table of the row that holds the asset code cd
PosOrigem(cd) == CHOOSE i \in DOMAIN df.rows : df.rows[i]["CD_ATIVO"] = cd

Separou == call \in SplitCalls


RECURSIVE SomaFinitos(_)
SomaFinitos(ps) ==
    IF ps = <<>> THEN [n |-> 0, d |-> 1]
    ELSE IF IsFinite(ps[1]) THEN FracAdd(ps[1], SomaFinitos(Tail(ps)))
    ELSE SomaFinitos(Tail(ps))

\* Series.sum() of a column of quotients: NaN is skipped, an infinity absorbs
Soma(ps) ==
    LET pos == \E i \in DOMAIN ps : ps[i].d = 0 /\ ps[i].n = 1
        neg == \E i \in DOMAIN ps : ps[i].d = 0 /\ ps[i].n = -1
    IN  IF pos /\ neg THEN [n |-> 0, d |-> 0]
        ELSE IF pos THEN [n |-> 1, d |-> 0]
        ELSE IF neg THEN [n |-> -1, d |-> 0]
        ELSE SomaFinitos(ps)

\* C1: every returned row's PORCENTAGEM is its market value divided by the
\* total market value of the fund's positions of that same category (not of
\* all positions of the fund); positions valued 100, 200 and 300 weigh
\* 1/6, 1/3 and 1/2.
C1_PorcentagemDaFatia ==
    (Separou /\ exc = "none") =>
      \A k \in DOMAIN ret : \A i \in DOMAIN ret[k].rows :
        LET v == ret[k].rows[i]["VL_MERC_POS_FINAL"]
            q == ret[k].rows[i]["PORCENTAGEM"]
            total == TotalFatia(cnpj, LabelDe(k))
            vals == Col(Posicoes(cnpj, LabelDe(k)), "VL_MERC_POS_FINAL")
        IN  /\ total /= 0 => (q.d > 0 /\ q.n * total = v * q.d)
            /\ total = 0 => q.d = 0
            /\ (Len(vals) = 3 /\ Range(vals) = {100, 200, 300}) =>
                 q = CASE v = 100 -> [n |-> 1, d |-> 6]
                       [] v = 200 -> [n |-> 1, d |-> 3]
                       [] v = 300 -> [n |-> 1, d |-> 2]

C1_Witness ==
    /\ call = "fundo_cnpj" /\ exc = "none" /\ cnpj = CnpjA
    /\ Len(df.rows) = 4
    /\ Col(ret["df_titulos_pub"].rows, "PORCENTAGEM")
         = <<[n |-> 1, d |-> 2], [n |-> 1, d |-> 3], [n |-> 1, d |-> 6]>>
    /\ Len(ret["df_vendido_acoes"].rows) = 1

\* C2 as stated: the PORCENTAGEM values of every non-empty returned slice sum
\* to exactly 1.
C2_SomaUmSeNaoVazia ==
    (Separou /\ exc = "none") =>
      \A k \in DOMAIN ret :
        ret[k].rows /= <<>> => Soma(Col(ret[k].rows, "PORCENTAGEM")) = One

\* C2 amended: the PORCENTAGEM values of a returned slice sum to 1 whenever
\* the market values of the slice have a non-zero total; when the total is
\* zero (an empty slice, or a slice of zero-valued positions) no PORCENTAGEM
\* is a finite number and the sum is not 1.
C2_SomaUmSeTotalNaoNulo ==
    (Separou /\ exc = "none") =>
      \A k \in DOMAIN ret :
        LET ps == Col(ret[k].rows, "PORCENTAGEM")
        IN  IF TotalFatia(cnpj, LabelDe(k)) /= 0
            THEN Soma(ps) = One
            ELSE Soma(ps) /= One /\ \A i \in DOMAIN ps : ~IsFinite(ps[i])

C2_Witness ==
    /\ call = "fundo_cnpj_opcoes" /\ exc = "none"
    /\ Col(ret["df_opcoes_vendidas"].rows, "VL_MERC_POS_FINAL") = <<200, 100, 300>>
    /\ Col(ret["df_opcoes_vendidas"].rows, "PORCENTAGEM")
         = <<[n |-> 1, d |-> 3], [n |-> 1, d |-> 6], [n |-> 1, d |-> 2]>>

\* C3: when the fund has no position of a category (also when the cnpj is not
\* in the table at all) the call raises nothing and returns for that category
\* a table without rows that has the PORCENTAGEM column.
C3_FatiaVazia ==
    Separou =>
      \A k \in FatiasDe(call) :
        Posicoes(cnpj, LabelDe(k)) = <<>> =>
          /\ exc = "none"
          /\ k \in DOMAIN ret
          /\ ret[k].rows = <<>>
          /\ "PORCENTAGEM" \in Range(ret[k].columns)

C3_Witness ==
    /\ call = "fundo_cnpj_acoes" /\ cnpj = CnpjAusente /\ exc = "none"
    /\ Len(df.rows) = 2
    /\ \A i \in DOMAIN df.rows : df.rows[i]["TP_APLIC"] = Acoes
    /\ ret["df_acoes"].rows = <<>>
    /\ ret["df_acoes"].columns
         = <<"DENOM_SOCIAL", "CD_ATIVO", "PORCENTAGEM", "VL_MERC_POS_FINAL">>

\* C7: every row of every returned slice, and every value pl_fundo returns,
\* comes from a row whose CNPJ is the given one; rows of other funds enter no
\* slice and no PORCENTAGEM denominator; a cnpj that is not in the table gives
\* empty results and no error.
C7_SomenteOFundo ==
    /\ (Separou /\ exc = "none") =>
         \A k \in DOMAIN ret : \A i \in DOMAIN ret[k].rows :
           LET r == ret[k].rows[i]
               o == Origem(r["CD_ATIVO"])
               doFundo == SelectSeq(df.rows, LAMBDA x :
                             x["CNPJ_FUNDO"] = cnpj /\ x["TP_APLIC"] = o["TP_APLIC"])
               total == SumCol(doFundo, "VL_MERC_POS_FINAL")
           IN  /\ o["CNPJ_FUNDO"] = cnpj
               /\ r["DENOM_SOCIAL"] = DenomSocial(cnpj)
               /\ total /= 0 =>
                    r["PORCENTAGEM"].n * total
                      = r["VL_MERC_POS_FINAL"] * r["PORCENTAGEM"].d
    /\ (call = "pl_fundo" /\ exc = "none") =>
         \A i \in DOMAIN Saida.rows :
           Entrada(Saida.rows[i])[Usada("CNPJ_FUNDO", "CNPJ_FUNDO_CLASSE")] = cnpj
    /\ (call \in SplitCalls \cup {"pl_fundo"} /\ ~FaltaColuna
          /\ \A j \in DOMAIN df.rows :
               df.rows[j][Usada("CNPJ_FUNDO", "CNPJ_FUNDO_CLASSE")] /= cnpj) =>
         (exc = "none" /\ \A k \in DOMAIN ret : ret[k].rows = <<>>)

C7_Witness ==
    /\ call = "fundo_cnpj_debentures" /\ exc = "none" /\ cnpj = CnpjA
    /\ Col(df.rows, "CNPJ_FUNDO") = <<CnpjB, CnpjA>>
    /\ Col(df.rows, "TP_APLIC") = <<Debentures, Debentures>>
    /\ Col(df.rows, "VL_MERC_POS_FINAL") = <<100, 100>>
    /\ Col(ret["df_debentures"].rows, "CD_ATIVO") = <<"VALE3">>
    /\ Col(ret["df_debentures"].rows, "PORCENTAGEM") = <<One>>

\* C8: each returned slice holds all and only the fund's rows whose TP_APLIC
\* equals the label of the slice, the slices of one call share no row, and a
\* row with any other TP_APLIC is in no slice.
C8_ParticaoPorCategoria ==
    (Separou /\ exc = "none") =>
      /\ DOMAIN ret = FatiasDe(call)
      /\ \A k \in DOMAIN ret :
           /\ Len(ret[k].rows) = Len(Posicoes(cnpj, LabelDe(k)))
           /\ Range(Col(ret[k].rows, "CD_ATIVO"))
                = Range(Col(Posicoes(cnpj, LabelDe(k)), "CD_ATIVO"))
           /\ \A i \in DOMAIN ret[k].rows :
                Origem(ret[k].rows[i]["CD_ATIVO"])["TP_APLIC"] = LabelDe(k)
      /\ \A k1, k2 \in DOMAIN ret :
           k1 /= k2 => Range(Col(ret[k1].rows, "CD_ATIVO"))
                         \cap Range(Col(ret[k2].rows, "CD_ATIVO")) = {}
      /\ \A r \in Range(df.rows) :
           r["TP_APLIC"] \notin {LabelDe(k) : k \in DOMAIN ret} =>
             \A k \in DOMAIN ret :
               r["CD_ATIVO"] \notin Range(Col(ret[k].rows, "CD_ATIVO"))

C8_Witness ==
    /\ call = "fundo_cnpj" /\ exc = "none" /\ cnpj = CnpjB
    /\ Len(df.rows) = 2
    /\ \A i \in DOMAIN df.rows : df.rows[i]["CNPJ_FUNDO"] = CnpjB
    /\ df.rows[1]["TP_APLIC"] = OutraAplic
    /\ df.rows[2]["TP_APLIC"] = Acoes
    /\ Col(ret["df_acoes"].rows, "CD_ATIVO") = <<"VALE3">>
    /\ \A k \in DOMAIN ret : k /= "df_acoes" => ret[k].rows = <<>>

ValorDecrescente(rows) ==
    \A i \in 1..(Len(rows) - 1) :
      rows[i]["VL_MERC_POS_FINAL"] >= rows[i + 1]["VL_MERC_POS_FINAL"]

PorValor == {"fundo_cnpj", "fundo_cnpj_acoes", "fundo_cnpj_debentures"}

\* C9 as stated: each slice of fundo_cnpj, fundo_cnpj_acoes and
\* fundo_cnpj_debentures is ordered by market value non-increasing, and rows of
\* equal market value keep the relative order they had in the input table.
C9_DecrescenteEstavel ==
    (call \in PorValor /\ exc = "none") =>
      \A k \in DOMAIN ret :
        /\ ValorDecrescente(ret[k].rows)
        /\ \A i, j \in DOMAIN ret[k].rows :
             (i < j /\ ret[k].rows[i]["VL_MERC_POS_FINAL"]
                         = ret[k].rows[j]["VL_MERC_POS_FINAL"]) =>
               PosOrigem(ret[k].rows[i]["CD_ATIVO"])
                 < PosOrigem(ret[k].rows[j]["CD_ATIVO"])

\* C9 amended: each slice of fundo_cnpj, fundo_cnpj_acoes and
\* fundo_cnpj_debentures is ordered by market value non-increasing; the order
\* of rows of equal market value is not fixed.
C9_Decrescente ==
    (call \in PorValor /\ exc = "none") =>
      \A k \in DOMAIN ret : ValorDecrescente(ret[k].rows)

C9_Witness ==
    /\ call = "fundo_cnpj_debentures" /\ exc = "none"
    /\ Col(df.rows, "VL_MERC_POS_FINAL") = <<100, 300, 200, 300>>
    /\ Col(ret["df_debentures"].rows, "VL_MERC_POS_FINAL") = <<300, 200, 100>>

C11_SoBdrEAcoesPorValor ==
    (call = "open_cda_8" /\ exc = "none") =>
      LET tp == Usada("TP_FUNDO", "TP_FUNDO_CLASSE")
          saida == ret["df"].rows
      IN  /\ \A i \in DOMAIN saida :
               /\ saida[i]["TP_APLIC"] \in {BDR, Acoes}
               /\ Entrada(saida[i])["TP_APLIC"] = saida[i]["TP_APLIC"]
          /\ \A j \in DOMAIN df.rows :
               (\E i \in DOMAIN saida : saida[i]["index"] = j - 1)
                 <=> (df.rows[j]["TP_APLIC"] \in {BDR, Acoes} /\ df.rows[j][tp] = "FI")
          /\ ValorDecrescente(saida)

C11_Witness ==
    /\ call = "open_cda_8" /\ exc = "none"
    /\ Tem("TP_FUNDO")
    /\ Col(df.rows, "TP_FUNDO") = <<"FI", "FI">>
    /\ Col(df.rows, "TP_APLIC") = <<TitulosPublicos, BDR>>
    /\ Col(df.rows, "VL_MERC_POS_FINAL") = <<"200.00", "100.00">>
    /\ Col(ret["df"].rows, "TP_APLIC") = <<BDR>>
    /\ Col(ret["df"].rows, "VL_MERC_POS_FINAL") = <<100>>

(***************************************************************************)
(* rentabilidade_fundo and rentabilidade_fundo_benchmark                   *)
(*                                                                         *)
(* A quota is an integer number of cents.  A return in percent is an exact *)
(* fraction (5.0 is 5/1, -6.67 is -667/100) and NaN is 0/0;                *)
(* round(x, 2) rounds the exact value to hundredths, halves to even.  The  *)
(* index of a table of quotas is a date YYYYMMDD, a monthly period is      *)
(* YYYYMM, a yearly period YYYY.                                           *)
(***************************************************************************)
NaN == [n |-> 0, d |-> 0]

\* the float that is h hundredths
Pct(h) == TrueDiv(h, 100)

\* index.to_period('M')
to_period_M(d) == d \div 100

\* index.year / index.to_period('Y')
year(d) == d \div 10000

\* round(q * escala): the integer nearest to q.n * escala / q.d, halves to even
Round(q, escala) ==
    LET g == Gcd(escala, q.d)
        n == q.n * (escala \div g)
        d == q.d \div g
        baixo == n \div d
        resto == n % d
    IN  IF 2 * resto < d THEN baixo
        ELSE IF 2 * resto > d THEN baixo + 1
        ELSE IF baixo % 2 = 0 THEN baixo ELSE baixo + 1

FracMul(q1, q2) ==
    LET g1 == Gcd(Abs(q1.n), q2.d)
        g2 == Gcd(Abs(q2.n), q1.d)
    IN  [n |-> (q1.n \div g1) * (q2.n \div g2), d |-> (q1.d \div g2) * (q2.d \div g1)]

RECURSIVE Selecionadas(_, _)
\* the rows of `rows` at the positions `keep`, in their order
Selecionadas(rows, keep) ==
    IF rows = <<>> THEN <<>>
    ELSE LET n == Len(rows)
             antes == Selecionadas(SubSeq(rows, 1, n - 1), keep)
         IN  IF n \in keep THEN Append(antes, rows[n]) ELSE antes

\* faulty variant of groupby_tail: the first row of each month is taken
groupby_head(t) ==
    [t EXCEPT !.rows = Selecionadas(t.rows,
        {i \in DOMAIN t.rows : \A j \in DOMAIN t.rows :
           j < i => to_period_M(t.rows[j]["index"]) /= to_period_M(t.rows[i]["index"])})]

\* fundo_espec.groupby(fundo_espec.index.to_period('M')).tail(1): the last row
\* of each month, the rows kept in the order of the table
groupby_tail(t) ==
    [t EXCEPT !.rows = Selecionadas(t.rows,
        {i \in DOMAIN t.rows : \A j \in DOMAIN t.rows :
           j > i => to_period_M(t.rows[j]["index"]) /= to_period_M(t.rows[i]["index"])})]

\* faulty variant of pct_change_100: the monthly change is not rounded
pct_change_100_sem_round(t, col) ==
    [t EXCEPT !.rows = [i \in DOMAIN t.rows |->
        [t.rows[i] EXCEPT ![col] =
           IF i = 1 THEN NaN
           ELSE TrueDiv(100 * (t.rows[i][col] - t.rows[i - 1][col]),
                        t.rows[i - 1][col])]]]

\* round(last_days.pct_change() * 100, 2): NaN in the first row
pct_change_100(t, col) ==
    [t EXCEPT !.rows = [i \in DOMAIN t.rows |->
        [t.rows[i] EXCEPT ![col] =
           IF i = 1 THEN NaN
           ELSE Pct(Round(TrueDiv(t.rows[i][col] - t.rows[i - 1][col],
                                  t.rows[i - 1][col]), 10000))]]]

\* Series.dropna()
dropna(t, col) == [t EXCEPT !.rows = SelectSeq(t.rows, LAMBDA r : ~IsNaN(r[col]))]

\* faulty variant of taxa_unit: the percentage is not divided by 100
taxa_unit_sem_dividir(r) == FracAdd(One, r)

\* 1 + (df_ret_mensal['ret'] / 100)
taxa_unit(r) == TrueDiv(100 * r.d + r.n, 100 * r.d)

RECURSIVE unique(_)
\* Index.unique(): the values in the order they first appear
unique(xs) ==
    IF xs = <<>> THEN <<>>
    ELSE LET antes == unique(SubSeq(xs, 1, Len(xs) - 1))
         IN  IF xs[Len(xs)] \in Range(antes) THEN antes ELSE Append(antes, xs[Len(xs)])

RECURSIVE prod(_)
\* Series.prod()
prod(qs) == IF qs = <<>> THEN One ELSE FracMul(qs[1], prod(Tail(qs)))

\* faulty variant of ret_do_ano: the factors of every year are compounded
ret_de_todos_os_anos(mensal, ano) ==
    Pct(Round(FracAdd(prod(Col(mensal.rows, "taxa_unit")), [n |-> -1, d |-> 1]), 10000))

\* round((df_ret_mensal.loc[ano, 'taxa_unit'].agg(lambda x : x.prod()) - 1) * 100, 2)
ret_do_ano(mensal, ano) ==
    LET doAno == SelectSeq(mensal.rows, LAMBDA r : year(r["index"]) = ano)
    IN  Pct(Round(FracAdd(prod(Col(doAno, "taxa_unit")), [n |-> -1, d |-> 1]), 10000))

\* a table of one column of returns
TabelaRet(col, idx, vals) ==
    [columns |-> <<col>>, error |-> "none", dtypes |-> (col :> "float64"),
     rows |-> [i \in DOMAIN idx |-> ("index" :> idx[i]) @@ (col :> vals[i])]]

rentabilidade_fundo(d, c, nome_fundo) ==
    LET fundo_espec == loc_rows(d, "CNPJ_FUNDO", {c})
        last_days == loc_cols(groupby_tail(fundo_espec), <<"VL_QUOTA">>)
        ret_mensal == dropna(pct_change_100(last_days, "VL_QUOTA"), "VL_QUOTA")
        df_ret_mensal0 == rename(ret_mensal, "VL_QUOTA", "ret")
        df_ret_mensal ==
            set_col(df_ret_mensal0, "taxa_unit",
                    [i \in DOMAIN df_ret_mensal0.rows |->
                       taxa_unit(df_ret_mensal0.rows[i]["ret"])], "float64")
        lst_years == unique([i \in DOMAIN df_ret_mensal.rows |->
                               year(df_ret_mensal.rows[i]["index"])])
        lst_ret_anual == [k \in DOMAIN lst_years |-> ret_do_ano(df_ret_mensal, lst_years[k])]
        nome == "ret_" \o nome_fundo
    IN  [df_ret_mensal |->
           TabelaRet(nome,
                     [i \in DOMAIN df_ret_mensal.rows |->
                        to_period_M(df_ret_mensal.rows[i]["index"])],
                     Col(df_ret_mensal.rows, "ret")),
         df_ret_anual |-> TabelaRet(nome, lst_years, lst_ret_anual)]

RECURSIVE Ordenada(_)
\* the values of a set in ascending order
Ordenada(S) ==
    IF S = {} THEN <<>>
    ELSE LET m == CHOOSE x \in S : \A y \in S : x <= y
         IN  <<m>> \o Ordenada(S \ {m})

\* the value of column col at the period p of a table of returns, NaN when
\* the table has no such period
ValorEm(t, col, p) ==
    IF \E i \in DOMAIN t.rows : t.rows[i]["index"] = p
    THEN t.rows[CHOOSE i \in DOMAIN t.rows : t.rows[i]["index"] = p][col]
    ELSE NaN

\* the index of pd.concat([df_fundo, df_benchmark], axis=1): the union of the
\* two, the periods of the first followed by the new ones of the second, or
\* in ascending order, as the pandas at hand combines two unequal indexes
concat_index(i1, i2) ==
    IF i1 = i2 THEN {i1}
    ELSE {i1 \o SelectSeq(i2, LAMBDA p : p \notin Range(i1)),
          Ordenada(Range(i1) \cup Range(i2))}

\* faulty variant of performance: the difference is taken the other way round
performance_invertida(f, b) ==
    IF IsNaN(f) \/ IsNaN(b) THEN NaN ELSE FracAdd(b, [n |-> -f.n, d |-> f.d])

\* df['ret_fundo'] - df['ret_benchmark'], NaN when either is missing
performance(f, b) ==
    IF IsNaN(f) \/ IsNaN(b) THEN NaN ELSE FracAdd(f, [n |-> -b.n, d |-> b.d])

rentabilidade_fundo_benchmark(df_fundo, df_bench, nome_fundo, nome_benchmark) ==
    LET cf == "ret_" \o nome_fundo
        cb == "ret_" \o nome_benchmark
    IN  {[columns |-> df_fundo.columns \o df_bench.columns \o <<"performance">>,
          error |-> IF cf \in Range(df_fundo.columns) /\ cb \in Range(df_bench.columns)
                    THEN "none" ELSE "KeyError",
          dtypes |-> ("performance" :> "float64") @@ df_fundo.dtypes @@ df_bench.dtypes,
          rows |-> [i \in DOMAIN idx |->
                      LET f == ValorEm(df_fundo, cf, idx[i])
                          b == ValorEm(df_bench, cb, idx[i])
                      IN  ("index" :> idx[i]) @@ (cf :> f) @@ (cb :> b)
                            @@ ("performance" :> performance(f, b))]] :
         idx \in concat_index(Col(df_fundo.rows, "index"), Col(df_bench.rows, "index"))}

(***************************************************************************)
(* Inputs of the return functions                                          *)
(***************************************************************************)
MaxCotas == 3
MaxMeses == 2

NomeFundo == "fundo"
NomeBenchmark == "cdi"

DatasCota == <<20221229, 20221230, 20230130, 20230131, 20230228, 20240131>>
Cotas == {100, 105, 98}

TabelaCotasDe(ds, cs, qs) ==
    [columns |-> <<"CNPJ_FUNDO", "VL_QUOTA">>, error |-> "none",
     dtypes |-> [c \in {"CNPJ_FUNDO", "VL_QUOTA"} |->
                   IF c = "VL_QUOTA" THEN "float64" ELSE "object"],
     rows |-> [i \in DOMAIN ds |->
                 [index |-> ds[i], CNPJ_FUNDO |-> cs[i], VL_QUOTA |-> qs[i]]]]

\* every table of at most MaxCotas daily quotas, in the order of their dates
TabelaCotas(d) ==
    \E D \in SUBSET Range(DatasCota) :
      /\ Cardinality(D) <= MaxCotas
      /\ \E cs \in [1..Cardinality(D) -> Cnpjs], qs \in [1..Cardinality(D) -> Cotas] :
           d = TabelaCotasDe(Ordenada(D), cs, qs)

\* the worked example of compounding: month-end quotas that rise 10%, fall 5%
\* and rise 2% within one year
TabelaCotasExemplo(d) ==
    d = TabelaCotasDe(<<20221230, 20230131, 20230228, 20230331>>,
                      [i \in 1..4 |-> CnpjA], <<10000, 11000, 10450, 10659>>)

MesesRet == {202301, 202302, 202303}
RetsFundo == {Pct(500), Pct(-667), Pct(0)}
RetsBenchmark == {Pct(100), Pct(500)}

\* every table of at most MaxMeses monthly returns
TabelaRetornos(d, nome, valores) ==
    \E M \in SUBSET MesesRet :
      /\ Cardinality(M) <= MaxMeses
      /\ \E vs \in [1..Cardinality(M) -> valores] :
           d = TabelaRet("ret_" \o nome, Ordenada(M), vs)

InitRent ==
    /\ \/ /\ path = "cotas"
          /\ TabelaCotas(df) \/ TabelaCotasExemplo(df)
          /\ df_benchmark = SemBenchmark
       \/ /\ path = "retornos"
          /\ TabelaRetornos(df, NomeFundo, RetsFundo)
          /\ TabelaRetornos(df_benchmark, NomeBenchmark, RetsBenchmark)
    /\ precos = SemProvedor
    /\ pedidos = 0
    /\ call = "none"
    /\ cnpj = "none"
    /\ ret = NoRet
    /\ exc = "none"

Call_rentabilidade_fundo ==
    /\ call = "none" /\ path = "cotas"
    /\ \E c \in CnpjArgs :
          Returns("rentabilidade_fundo", c, rentabilidade_fundo(df, c, NomeFundo))

Call_rentabilidade_fundo_benchmark ==
    /\ call = "none" /\ path = "retornos"
    /\ \E r \in rentabilidade_fundo_benchmark(df, df_benchmark, NomeFundo, NomeBenchmark) :
          Returns("rentabilidade_fundo_benchmark", "none", [df_ret_fundo_benchmark |-> r])

NextRent ==
    \/ Call_rentabilidade_fundo
    \/ Call_rentabilidade_fundo_benchmark

SpecRent == InitRent /\ [][NextRent]_vars

(***************************************************************************)
(* Properties of the return functions                                      *)
(***************************************************************************)
ColRet == "ret_" \o NomeFundo

\* the quotas of the fund asked for
CotasDoFundo == SelectSeq(df.rows, LAMBDA r : r["CNPJ_FUNDO"] = cnpj)

\* the months in which the fund has a quota, in ascending order
MesesObservados == Ordenada({r["index"] \div 100 : r \in Range(CotasDoFundo)})

\* the quota of the fund at its latest date within month m
UltimaCota(m) ==
    LET doMes == {r \in Range(CotasDoFundo) : r["index"] \div 100 = m}
    IN  (CHOOSE r \in doMes : \A o \in doMes : o["index"] <= r["index"])["VL_QUOTA"]

\* the hundredths of a value that was rounded to 2 decimals
Centesimos(v) == v.n * (100 \div v.d)

\* v is x * 100 rounded to 2 decimals: a multiple of 1/100 at most half a
\* hundredth away from it
Arredonda100(v, x) ==
    LET g == Gcd(10000, x.d)
        dif == Centesimos(v) * (x.d \div g) - x.n * (10000 \div g)
    IN  /\ v.d > 0 /\ 100 % v.d = 0
        /\ 2 * Abs(dif) <= x.d \div g

\* C12: for the cnpj asked for, the monthly table holds one row for every
\* observed month but the first, in order, valued
\* (last quota of the month / last quota of the preceding observed month - 1)
\* * 100 rounded to 2 decimals; n observed months give n - 1 rows, and
\* month-end quotas 10.0, 10.5, 9.8 give 5.0 and -6.67.
C12_RetornoMensal ==
    (call = "rentabilidade_fundo" /\ exc = "none") =>
      LET ms == MesesObservados
          mensal == ret["df_ret_mensal"].rows
      IN  /\ Len(mensal) = (IF Len(ms) = 0 THEN 0 ELSE Len(ms) - 1)
          /\ \A i \in DOMAIN mensal :
               /\ mensal[i]["index"] = ms[i + 1]
               /\ Arredonda100(mensal[i][ColRet],
                               TrueDiv(UltimaCota(ms[i + 1]) - UltimaCota(ms[i]),
                                       UltimaCota(ms[i])))
          /\ [i \in DOMAIN ms |-> UltimaCota(ms[i])] = <<100, 105, 98>> =>
               Col(mensal, ColRet) = <<[n |-> 5, d |-> 1], [n |-> -667, d |-> 100]>>

C12_Witness ==
    /\ call = "rentabilidade_fundo" /\ exc = "none" /\ cnpj = CnpjA
    /\ Col(df.rows, "index") = <<20230130, 20230131, 20230228>>
    /\ Col(df.rows, "CNPJ_FUNDO") = <<CnpjA, CnpjA, CnpjA>>
    /\ Col(df.rows, "VL_QUOTA") = <<98, 100, 105>>
    /\ Col(ret["df_ret_mensal"].rows, "index") = <<202302>>
    /\ Col(ret["df_ret_mensal"].rows, ColRet) = <<[n |-> 5, d |-> 1]>>

\* the monthly returns returned for the months of year y
RetornosDoAno(y) ==
    Col(SelectSeq(ret["df_ret_mensal"].rows, LAMBDA r : r["index"] \div 100 = y), ColRet)

RECURSIVE Composto(_)
\* the product of (1 + r / 100) over the returns rs
Composto(rs) ==
    IF rs = <<>> THEN One
    ELSE FracMul(FracAdd(One, [n |-> rs[1].n, d |-> rs[1].d * 100]), Composto(Tail(rs)))

\* C13: the annual table has a row for every year that has monthly returns,
\* valued (product of (1 + r/100) over the monthly returns r of that year,
\* minus 1) * 100 rounded to 2 decimals; returns of other years do not enter.
C13_RetornoAnual ==
    (call = "rentabilidade_fundo" /\ exc = "none") =>
      LET anual == ret["df_ret_anual"].rows
      IN  /\ Range(Col(anual, "index"))
               = {r["index"] \div 100 : r \in Range(ret["df_ret_mensal"].rows)}
          /\ \A i \in DOMAIN anual :
               Arredonda100(anual[i][ColRet],
                            FracAdd(Composto(RetornosDoAno(anual[i]["index"])),
                                    [n |-> -1, d |-> 1]))

C13_Witness ==
    /\ call = "rentabilidade_fundo" /\ exc = "none" /\ cnpj = CnpjB
    /\ Col(df.rows, "index") = <<20221230, 20230131, 20240131>>
    /\ Col(df.rows, "CNPJ_FUNDO") = <<CnpjB, CnpjB, CnpjB>>
    /\ Col(df.rows, "VL_QUOTA") = <<100, 105, 98>>
    /\ Col(ret["df_ret_anual"].rows, "index") = <<2023, 2024>>
    /\ Col(ret["df_ret_anual"].rows, ColRet) = <<[n |-> 5, d |-> 1], [n |-> -667, d |-> 100]>>

Exemplo10Menos5Mais2 == <<[n |-> 10, d |-> 1], [n |-> -5, d |-> 1], [n |-> 2, d |-> 1]>>

\* C14 as stated: monthly returns of exactly 10%, -5% and 2% in one year give
\* an annual return of 6.49% for that year.
C14_Anual649 ==
    (call = "rentabilidade_fundo" /\ exc = "none") =>
      \A i \in DOMAIN ret["df_ret_anual"].rows :
        RetornosDoAno(ret["df_ret_anual"].rows[i]["index"]) = Exemplo10Menos5Mais2 =>
          ret["df_ret_anual"].rows[i][ColRet] = [n |-> 649, d |-> 100]

\* C14 amended: monthly returns of exactly 10%, -5% and 2% in one year give an
\* annual return of 6.59% for that year, (1.10 * 0.95 * 1.02 - 1) * 100.
C14_Anual659 ==
    (call = "rentabilidade_fundo" /\ exc = "none") =>
      \A i \in DOMAIN ret["df_ret_anual"].rows :
        RetornosDoAno(ret["df_ret_anual"].rows[i]["index"]) = Exemplo10Menos5Mais2 =>
          ret["df_ret_anual"].rows[i][ColRet] = [n |-> 659, d |-> 100]

C14_Witness ==
    /\ call = "rentabilidade_fundo" /\ exc = "none" /\ cnpj = CnpjA
    /\ Col(df.rows, "VL_QUOTA") = <<10000, 11000, 10450, 10659>>
    /\ Col(ret["df_ret_mensal"].rows, ColRet) = Exemplo10Menos5Mais2
    /\ Col(ret["df_ret_anual"].rows, "index") = <<2023>>
    /\ Col(ret["df_ret_anual"].rows, ColRet) = <<[n |-> 659, d |-> 100]>>

ColBenchmark == "ret_" \o NomeBenchmark

\* the periods present in both input tables
PeriodosComuns ==
    Range(Col(df.rows, "index")) \cap Range(Col(df_benchmark.rows, "index"))

\* C15: the result of rentabilidade_fundo_benchmark has, for every period
\* present in both inputs, one row carrying the fund's and the benchmark's
\* returns of that period unchanged and performance = fund - benchmark.
C15_Performance ==
    (call = "rentabilidade_fundo_benchmark" /\ exc = "none") =>
      LET saida == ret["df_ret_fundo_benchmark"].rows
      IN  \A p \in PeriodosComuns :
            /\ Cardinality({i \in DOMAIN saida : saida[i]["index"] = p}) = 1
            /\ \A i \in DOMAIN saida :
                 saida[i]["index"] = p =>
                   LET f == saida[i][ColRet]
                       b == saida[i][ColBenchmark]
                       perf == saida[i]["performance"]
                   IN  /\ \E j \in DOMAIN df.rows :
                            df.rows[j]["index"] = p /\ df.rows[j][ColRet] = f
                       /\ \E j \in DOMAIN df_benchmark.rows :
                            /\ df_benchmark.rows[j]["index"] = p
                            /\ df_benchmark.rows[j][ColBenchmark] = b
                       /\ perf.d > 0
                       /\ perf.n * (f.d * b.d) = (f.n * b.d - b.n * f.d) * perf.d

C15_Witness ==
    /\ call = "rentabilidade_fundo_benchmark" /\ exc = "none"
    /\ Col(df.rows, "index") = <<202301, 202302>>
    /\ Col(df.rows, ColRet) = <<[n |-> 5, d |-> 1], [n |-> -667, d |-> 100]>>
    /\ Col(df_benchmark.rows, "index") = <<202302, 202303>>
    /\ Col(df_benchmark.rows, ColBenchmark) = <<[n |-> 1, d |-> 1], [n |-> 5, d |-> 1]>>
    /\ \E i \in DOMAIN ret["df_ret_fundo_benchmark"].rows :
         LET r == ret["df_ret_fundo_benchmark"].rows[i]
         IN  /\ r["index"] = 202302
             /\ r[ColRet] = [n |-> -667, d |-> 100]
             /\ r[ColBenchmark] = [n |-> 1, d |-> 1]
             /\ r["performance"] = [n |-> -767, d |-> 100]

(***************************************************************************)
(* Functions that query a provider: yf.download and pd.read_json           *)
(***************************************************************************)
MaxPrecos == 3

\* faulty variant of tentativas: a failed request is issued a second time
tentativas_com_repeticao(resposta) == IF resposta.falha THEN 2 ELSE 1

\* the requests one yf.download(...) or pd.read_json(url) expression issues:
\* the call is written once, outside any loop and any try block
tentativas(resposta) == 1

ErroDoProvedor == "erro_do_provedor"

FracLe(a, b) == a.n * b.d <= b.n * a.d
FracMax(a, b) == IF FracLe(a, b) THEN b ELSE a
FracDiv(a, b) == FracMul(a, TrueDiv(b.d, b.n))

\* df_preco.pct_change().dropna(): the first row, which has no predecessor,
\* is dropped
pct_change_dropna(ps) == [i \in 1..(Len(ps) - 1) |-> TrueDiv(ps[i + 1] - ps[i], ps[i])]

RECURSIVE cumprod(_)
\* (1 + df_returns).cumprod()
cumprod(rs) ==
    IF rs = <<>> THEN <<>>
    ELSE LET antes == cumprod(SubSeq(rs, 1, Len(rs) - 1))
             fator == FracAdd(One, rs[Len(rs)])
         IN  Append(antes, IF antes = <<>> THEN fator
                           ELSE FracMul(antes[Len(antes)], fator))

RECURSIVE MaxAte(_, _)
MaxAte(cs, i) == IF i = 1 THEN cs[1] ELSE FracMax(MaxAte(cs, i - 1), cs[i])

\* faulty variant of expanding_max: the peak of the whole series at every date
max_da_serie(cs) == [i \in DOMAIN cs |-> MaxAte(cs, Len(cs))]

\* cumulative_returns.expanding(min_periods=1).max()
expanding_max(cs) == [i \in DOMAIN cs |-> MaxAte(cs, i)]

\* faulty variant of min: the largest value is reported
maximo(xs) ==
    IF xs = <<>> THEN NaN
    ELSE CHOOSE x \in Range(xs) : \A y \in Range(xs) : FracLe(y, x)

\* drawdown.min(): NaN on an empty series
min(xs) ==
    IF xs = <<>> THEN NaN
    ELSE CHOOSE x \in Range(xs) : \A y \in Range(xs) : FracLe(x, y)

\* the minimum returned by drawdown, with the local series it is taken from
drawdown(resposta) ==
    LET df_returns == pct_change_dropna(resposta.Close)
        cumulative_returns == cumprod(df_returns)
        peak == expanding_max(cumulative_returns)
        dd == [i \in DOMAIN cumulative_returns |->
                 Pct(Round(FracAdd(FracDiv(cumulative_returns[i], peak[i]),
                                   [n |-> -1, d |-> 1]), 10000))]
    IN  [error |-> "none", min |-> min(dd), drawdown |-> dd]

\* whether `frame['pct_change_accum'].iloc[0] = 1` reaches the frame: it does
\* when the column selection is a view (pandas without Copy-on-Write) and
\* does not when it is a copy (Copy-on-Write, the only mode of pandas 3)
escrita_encadeada == {TRUE, FALSE}

\* ret_accum and the benchmark series of the figure; the prices of the answer
\* are dated 1, 2, ... so the first return is dated 2
ret_acumulado(resposta, benchmark, escreve) ==
    LET df_returns == pct_change_dropna(resposta.Close)
        cum == cumprod(df_returns)
        sliced == SelectSeq(benchmark.rows, LAMBDA r : r["index"] >= 2)
        accum == cumprod([i \in DOMAIN sliced |->
                            FracMul(sliced[i]["pct_change"], [n |-> 1, d |-> 100])])
        arred == [i \in DOMAIN accum |-> TrueDiv(Round(accum[i], 10000), 10000)]
    IN  IF cum = <<>> \/ sliced = <<>>
        THEN [error |-> "IndexError"]
        ELSE [error |-> "none",
              ret_accum |-> [cum EXCEPT ![1] = One],
              index |-> Col(sliced, "index"),
              pct_change_accum |-> IF escreve THEN [arred EXCEPT ![1] = One] ELSE arred]

\* a result that is computed from the prices of the answer by logarithms,
\* standard deviations, resampling or plotting: represented by those prices
calculado(resposta) == [error |-> "none", dados |-> resposta.Close]

\* index.month
month(d) == (d \div 100) % 100

\* the day the provider dates its k-th price: the 15th of consecutive months
DiasPreco == <<20231115, 20231215, 20240115, 20240215>>

\* start=f'{primeiro_ano}-{primeiro_mes}-01'
inicio_do_download(primeiro) == year(primeiro) * 10000 + month(primeiro) * 100 + 1

\* end=f'{ultimo_ano}-{ultimo_mes+1}-01' when ultimo_mes != 12, otherwise
\* end=f'{ultimo_ano}-{ultimo_mes}-01'
fim_do_download(ultimo) ==
    IF month(ultimo) /= 12
    THEN year(ultimo) * 10000 + (month(ultimo) + 1) * 100 + 1
    ELSE year(ultimo) * 10000 + month(ultimo) * 100 + 1

\* yf.download(ticker, start, end)['Close']: the prices dated from start on
\* and before end
yf_download(resposta, start, end) ==
    SelectSeq([k \in DOMAIN resposta.Close |->
                 [Data_Referencia |-> DiasPreco[k], Close |-> resposta.Close[k]]],
              LAMBDA r : start <= r.Data_Referencia /\ r.Data_Referencia < end)

\* resample('M').last() and the index moved to the first day of the month:
\* the last price of each month (the provider has a price in every month
\* between its first and its last)
resample_M_last(fii_preco) ==
    LET ultimas == SelectSeq(fii_preco,
                     LAMBDA r : \A o \in Range(fii_preco) :
                                  to_period_M(o.Data_Referencia) = to_period_M(r.Data_Referencia)
                                    => o.Data_Referencia <= r.Data_Referencia)
    IN  [i \in DOMAIN ultimas |->
           [index |-> to_period_M(ultimas[i].Data_Referencia) * 100 + 1,
            Close |-> ultimas[i].Close]]

RECURSIVE merge_index(_, _)
\* pd.merge(left, right, left_index=True, right_index=True): the pairs of
\* rows of equal index
merge_index(left, right) ==
    IF left = <<>> THEN <<>>
    ELSE LET iguais == SelectSeq(right, LAMBDA r : r["index"] = left[1]["index"])
         IN  [i \in DOMAIN iguais |->
                [index |-> left[1]["index"], Close |-> left[1].Close,
                 CNPJ_Fundo |-> iguais[i]["CNPJ_Fundo"],
                 Valor_Patrimonial_Cotas |-> iguais[i]["Valor_Patrimonial_Cotas"]]]
               \o merge_index(Tail(left), right)

\* fii_cnpj once df.index[0] exists: the monthly prices of the download
\* joined with the rows of the selected FII, and the P/VP
fii_cnpj(d, c, resposta) ==
    LET df_fii_espec == SelectSeq(d.rows, LAMBDA r : r["CNPJ_Fundo"] = c)
        ultimo == d.rows[Len(d.rows)]["index"]
        start == inicio_do_download(d.rows[1]["index"])
        end == fim_do_download(ultimo)
        fii_preco == SelectSeq(resample_M_last(yf_download(resposta, start, end)),
                               LAMBDA r : to_period_M(r["index"]) <= to_period_M(ultimo))
        df_fii_final == merge_index(fii_preco, df_fii_espec)
    IN  [error |-> "none",
         pedido |-> [start |-> start, end |-> end],
         rows |-> [i \in DOMAIN df_fii_final |->
                     [k \in DOMAIN df_fii_final[i] \cup {"P/VP"} |->
                        IF k = "P/VP"
                        THEN Pct(Round(TrueDiv(df_fii_final[i].Close,
                                               df_fii_final[i]["Valor_Patrimonial_Cotas"]),
                                       100))
                        ELSE df_fii_final[i][k]]]]

\* pd.read_json(url) followed by the 'data' index: an answer without
\* observations has no 'data' column
consulta_bc(resposta) ==
    IF resposta.Close = <<>> THEN [error |-> "KeyError"]
    ELSE [error |-> "none",
          df |-> [i \in DOMAIN resposta.Close |->
                    [data |-> i, valor |-> resposta.Close[i]]]]

\* one request and what becomes of its answer
Consulta(name, r) ==
    /\ call' = name
    /\ cnpj' = "none"
    /\ pedidos' = pedidos + tentativas(precos)
    /\ exc' = IF precos.falha THEN ErroDoProvedor ELSE r.error
    /\ ret' = IF precos.falha \/ r.error /= "none" THEN NoRet ELSE r
    /\ df' = entrada_apos(df)
    /\ df_benchmark' = entrada_apos(df_benchmark)
    /\ UNCHANGED <<path, precos>>

\* an exception raised before any request
SemConsulta(name, erro) ==
    /\ call' = name
    /\ cnpj' = "none"
    /\ exc' = erro
    /\ ret' = NoRet
    /\ df' = entrada_apos(df)
    /\ df_benchmark' = entrada_apos(df_benchmark)
    /\ UNCHANGED <<path, precos, pedidos>>

(***************************************************************************)
(* Inputs of the provider functions                                        *)
(***************************************************************************)
PrecosClose == {90, 100, 110}
PctsBenchmark == {Pct(0), Pct(150)}

\* what the provider answers: a failure, or up to MaxPrecos closing prices
Respostas ==
    {[falha |-> TRUE, Close |-> <<>>]}
      \cup {[falha |-> FALSE, Close |-> ps] :
              ps \in UNION {[1..n -> PrecosClose] : n \in 0..MaxPrecos}}

\* df_benchmark of ret_acumulado: 'Close' and 'pct_change' at dates 1, 2, ...
Benchmarks ==
    {[columns |-> <<"Close", "pct_change">>, error |-> "none",
      dtypes |-> [c \in {"Close", "pct_change"} |-> "float64"],
      rows |-> [i \in DOMAIN vs |->
                  [index |-> i, Close |-> 100, pct_change |-> vs[i]]]] :
       vs \in UNION {[1..n -> PctsBenchmark] : n \in 0..MaxPrecos}}

MesesFii == <<20231101, 20231201, 20240101, 20240201>>

\* df of fii_cnpj: no row, or the rows of two funds for some consecutive
\* months, month after month
TabelasFii ==
    {[columns |-> <<"CNPJ_Fundo", "Valor_Patrimonial_Cotas">>, error |-> "none",
      dtypes |-> [c \in {"CNPJ_Fundo", "Valor_Patrimonial_Cotas"} |-> "object"],
      rows |-> [i \in 1..(2 * (m[2] - m[1] + 1)) |->
                  [index |-> MesesFii[m[1] + ((i - 1) \div 2)],
                   CNPJ_Fundo |-> IF i % 2 = 1 THEN CnpjA ELSE CnpjB,
                   Valor_Patrimonial_Cotas |-> IF i % 2 = 1 THEN 95 ELSE 100]]] :
       m \in {<<1, 0>>} \cup {x \in (1..MaxPrecos) \X (1..MaxPrecos) : x[1] <= x[2]}}

InitPrecos ==
    /\ path = "provedor"
    /\ df \in TabelasFii
    /\ df_benchmark \in Benchmarks
    /\ precos \in Respostas
    /\ pedidos = 0
    /\ call = "none"
    /\ cnpj = "none"
    /\ ret = NoRet
    /\ exc = "none"

Pronto == call = "none" /\ path = "provedor"

\* df.index[0] raises on an empty table, before the download
Call_fii_cnpj ==
    /\ Pronto
    /\ IF df.rows = <<>> THEN SemConsulta("fii_cnpj", "IndexError")
       ELSE Consulta("fii_cnpj", fii_cnpj(df, CnpjA, precos))

Call_vol_anual == Pronto /\ Consulta("vol_anual", calculado(precos))

Call_drawdown == Pronto /\ Consulta("drawdown", drawdown(precos))

Call_ret_acumulado ==
    /\ Pronto
    /\ \E escreve \in escrita_encadeada :
          Consulta("ret_acumulado", ret_acumulado(precos, df_benchmark, escreve))

Call_ret_anual == Pronto /\ Consulta("ret_anual", calculado(precos))

Call_plot_risk_return == Pronto /\ Consulta("plot_risk_return", calculado(precos))

Call_consulta_bc == Pronto /\ Consulta("consulta_bc", consulta_bc(precos))

Call_vm_igti == Pronto /\ Consulta("vm_igti", calculado(precos))

Call_indicadores_acoes_shoppings ==
    Pronto /\ Consulta("indicadores_acoes_shoppings", calculado(precos))

NextPrecos ==
    \/ Call_fii_cnpj
    \/ Call_vol_anual
    \/ Call_drawdown
    \/ Call_ret_acumulado
    \/ Call_ret_anual
    \/ Call_plot_risk_return
    \/ Call_consulta_bc
    \/ Call_vm_igti
    \/ Call_indicadores_acoes_shoppings

SpecPrecos == InitPrecos /\ [][NextPrecos]_vars

(***************************************************************************)
(* Properties of the provider functions                                    *)
(***************************************************************************)
\* C16 as stated: in ret_acumulado the asset's cumulative series and the
\* benchmark's pct_change_accum are both 1 at their first date.
C16_ComecamEmUm ==
    (call = "ret_acumulado" /\ exc = "none") =>
      /\ ret["ret_accum"][1] = One
      /\ ret["pct_change_accum"][1] = One

NaoDecrescente(ps) == \A i \in 1..(Len(ps) - 1) : ps[i] <= ps[i + 1]

Zero == [n |-> 0, d |-> 1]

\* C17 as stated: for a non-decreasing price series every drawdown value is
\* 0 and the reported minimum is 0.
C17_SemQuedaMinimoZero ==
    (call = "drawdown" /\ exc = "none" /\ NaoDecrescente(precos.Close)) =>
      /\ \A i \in DOMAIN ret["drawdown"] : ret["drawdown"][i] = Zero
      /\ ret["min"] = Zero

\* C17 amended: for a non-decreasing series of at least two prices every
\* drawdown value is 0 and the reported minimum is 0; a series of fewer than
\* two prices has no drawdown value and the reported minimum is NaN.
C17_SemQuedaComDoisPrecos ==
    (call = "drawdown" /\ exc = "none" /\ NaoDecrescente(precos.Close)) =>
      /\ \A i \in DOMAIN ret["drawdown"] : ret["drawdown"][i] = Zero
      /\ Len(precos.Close) >= 2 => ret["min"] = Zero
      /\ Len(precos.Close) < 2 => ret["drawdown"] = <<>> /\ IsNaN(ret["min"])

C17_Witness ==
    /\ call = "drawdown" /\ exc = "none"
    /\ precos.Close = <<90, 100, 100>>
    /\ ret["drawdown"] = <<Zero, Zero>>
    /\ ret["min"] = Zero

\* the highest price among the dated returns up to date t (prices 2..t)
PicoAte(t) ==
    CHOOSE m \in {precos.Close[s] : s \in 2..t} :
      \A s \in 2..t : precos.Close[s] <= m

\* v is the drawdown of date t: C_t / max over s <= t of C_s, minus 1, times
\* 100 and rounded to 2 decimals, where C_t = price_t / price_1 is the
\* cumulative product of (1 + daily return)
DrawdownEm(v, t) ==
    Arredonda100(v, TrueDiv(precos.Close[t] - PicoAte(t), PicoAte(t)))

\* the returned minimum is the least drawdown value and none is positive
MinimoDosDrawdowns ==
    /\ DOMAIN ret["drawdown"] = 1..(Len(precos.Close) - 1)
    /\ \A i \in DOMAIN ret["drawdown"] :
         /\ DrawdownEm(ret["drawdown"][i], i + 1)
         /\ ret["drawdown"][i].n <= 0
         /\ FracLe(ret["min"], ret["drawdown"][i])
    /\ \E i \in DOMAIN ret["drawdown"] : ret["min"] = ret["drawdown"][i]
    /\ ret["min"].d > 0 /\ ret["min"].n <= 0

\* C18 as stated: for any price series drawdown returns the minimum over the
\* dates of the rounded drawdown values, and every value and the minimum are
\* at most 0.
C18_MinimoParaTodaSerie ==
    (call = "drawdown" /\ exc = "none") => MinimoDosDrawdowns

\* C18 amended: for a series of at least two prices drawdown returns the
\* minimum over the dates of the rounded drawdown values, all at most 0; for
\* fewer than two prices it returns NaN.
C18_MinimoComDoisPrecos ==
    (call = "drawdown" /\ exc = "none") =>
      IF Len(precos.Close) >= 2 THEN MinimoDosDrawdowns ELSE IsNaN(ret["min"])

C18_Witness ==
    /\ call = "drawdown" /\ exc = "none"
    /\ precos.Close = <<100, 110, 90>>
    /\ ret["drawdown"] = <<Zero, [n |-> -909, d |-> 50]>>
    /\ ret["min"] = [n |-> -909, d |-> 50]

ComProvedor ==
    {"fii_cnpj", "vol_anual", "drawdown", "ret_acumulado", "ret_anual",
     "plot_risk_return", "vm_igti", "indicadores_acoes_shoppings", "consulta_bc"}

\* C19 as stated: every provider function issues exactly one request per
\* call, and a failed request ends the call with the failure and no result.
C19_UmPedidoPorChamada ==
    call \in ComProvedor =>
      /\ pedidos = 1
      /\ precos.falha => exc = ErroDoProvedor /\ ret = NoRet

\* C19 amended: a provider function issues at most one request per call,
\* exactly one unless fii_cnpj is given an empty table (it then raises
\* IndexError before the request); a failed request ends the call with the
\* failure, without a second request and without a result.
C19_NoMaximoUmPedido ==
    call \in ComProvedor =>
      /\ pedidos <= 1
      /\ pedidos = 0 <=> (call = "fii_cnpj" /\ df.rows = <<>>)
      /\ pedidos = 0 => exc = "IndexError" /\ ret = NoRet
      /\ (pedidos = 1 /\ precos.falha) => exc = ErroDoProvedor /\ ret = NoRet

C19_Witness ==
    /\ call = "consulta_bc"
    /\ precos.falha
    /\ pedidos = 1
    /\ exc = ErroDoProvedor
    /\ ret = NoRet

(***************************************************************************)
(* The functions that take tables: splitters and return functions          *)
(***************************************************************************)
InitTabelas == InitSplit \/ InitRent

NextTabelas == NextSplit \/ NextRent

SpecTabelas == InitTabelas /\ [][NextTabelas]_vars

RecebemTabelas ==
    {"fundo_cnpj", "fundo_cnpj_acoes", "fundo_cnpj_debentures", "fundo_cnpj_opcoes",
     "rentabilidade_fundo", "rentabilidade_fundo_benchmark"}

ColunasDerivadas == {"PORCENTAGEM", "taxa_unit", "performance"}

\* the call ended as a call that computes r ends
TerminaCom(r) ==
    IF ErrorOf(r) = "none" THEN exc = "none" /\ ret = r
    ELSE exc = ErrorOf(r) /\ ret = NoRet

\* the outcome of the call is an outcome of the same call on the tables as
\* they are after it
MesmoResultadoDeNovo ==
    /\ call = "fundo_cnpj" => \E r \in fundo_cnpj(df, cnpj) : TerminaCom(r)
    /\ call = "fundo_cnpj_acoes" => \E r \in fundo_cnpj_acoes(df, cnpj) : TerminaCom(r)
    /\ call = "fundo_cnpj_debentures" =>
         \E r \in fundo_cnpj_debentures(df, cnpj) : TerminaCom(r)
    /\ call = "fundo_cnpj_opcoes" => \E r \in fundo_cnpj_opcoes(df, cnpj) : TerminaCom(r)
    /\ call = "rentabilidade_fundo" =>
         TerminaCom(rentabilidade_fundo(df, cnpj, NomeFundo))
    /\ call = "rentabilidade_fundo_benchmark" =>
         \E r \in rentabilidade_fundo_benchmark(df, df_benchmark, NomeFundo, NomeBenchmark) :
           TerminaCom([df_ret_fundo_benchmark |-> r])

SemColunaDerivada(d) == "columns" \in DOMAIN d => Range(d.columns) \cap ColunasDerivadas = {}

ColunaDoAtivo ==
    CASE call = "open_cda_2" -> Usada("NM_FUNDO_COTA", "NM_FUNDO_CLASSE_SUBCLASSE_COTA")
      [] call = "open_cda_7" -> "EMISSOR"
      [] call = "open_cda_8" -> "DS_ATIVO"
      [] OTHER -> "CD_ATIVO"

\* C21: open_cda_1 returns as CD_ATIVO the row's TP_TITPUB, one space and the
\* row's DT_VENC, and no DT_VENC column; open_cda_2, open_cda_7 and
\* open_cda_8 return as CD_ATIVO the unchanged cota name, EMISSOR and
\* DS_ATIVO of the row.
C21_CodigoDoAtivo ==
    (call \in {"open_cda_1", "open_cda_2", "open_cda_7", "open_cda_8"} /\ exc = "none") =>
      /\ "DT_VENC" \notin Range(ret["df"].columns)
      /\ \A i \in DOMAIN ret["df"].rows :
           LET r == ret["df"].rows[i]
           IN  /\ "DT_VENC" \notin DOMAIN r
               /\ r["CD_ATIVO"] =
                    IF call = "open_cda_1"
                    THEN Entrada(r)["TP_TITPUB"] \o " " \o Entrada(r)["DT_VENC"]
                    ELSE Entrada(r)[ColunaDoAtivo]

C21_Witness ==
    /\ call = "open_cda_1" /\ exc = "none"
    /\ Col(df.rows, "TP_TITPUB") = <<"LTN", "NTN-B">>
    /\ Col(df.rows, "DT_VENC") = <<"2029-01-01", "2029-01-01">>
    /\ Col(ret["df"].rows, "CD_ATIVO") = <<"LTN 2029-01-01", "NTN-B 2029-01-01">>

LeitoresDePosicoes ==
    {"open_cda_1", "open_cda_2", "open_cda_4", "open_cda_4_v2", "open_cda_7", "open_cda_8"}

MesmaTripla(r, o) ==
    /\ r["CNPJ_FUNDO"] = o["CNPJ_FUNDO"]
    /\ r["DT_COMPTC"] = o["DT_COMPTC"]
    /\ r["CD_ATIVO"] = o["CD_ATIVO"]

\* two rows of the file name the same fund, date and asset, in the columns
\* the reader takes them from
MesmaTriplaNoArquivo(a, b) ==
    /\ a[Usada("CNPJ_FUNDO", "CNPJ_FUNDO_CLASSE")] = b[Usada("CNPJ_FUNDO", "CNPJ_FUNDO_CLASSE")]
    /\ a["DT_COMPTC"] = b["DT_COMPTC"]
    /\ IF call = "open_cda_1"
       THEN a["TP_TITPUB"] = b["TP_TITPUB"] /\ a["DT_VENC"] = b["DT_VENC"]
       ELSE a[ColunaDoAtivo] = b[ColunaDoAtivo]

\* the reader keeps the row of the file
Mantida(a) ==
    /\ a[Usada("TP_FUNDO", "TP_FUNDO_CLASSE")] \in Aceitos(call)
    /\ call = "open_cda_8" => a["TP_APLIC"] \in {BDR, Acoes}

\* C22 as stated: no two rows returned by a reader share the triple
\* (CNPJ_FUNDO, DT_COMPTC, CD_ATIVO), whatever the file.
C22_TriplaUnica ==
    (call \in LeitoresDePosicoes /\ exc = "none") =>
      \A i, j \in DOMAIN ret["df"].rows :
        i /= j => ~MesmaTripla(ret["df"].rows[i], ret["df"].rows[j])

\* C22 amended: the readers neither add nor remove repetitions: two returned
\* rows share the triple exactly when their rows of the file do, and two kept
\* rows of the file that share it are both returned, sharing it.
C22_TriplaComoNoArquivo ==
    (call \in LeitoresDePosicoes /\ exc = "none") =>
      /\ \A i, j \in DOMAIN ret["df"].rows :
           i /= j =>
             (MesmaTripla(ret["df"].rows[i], ret["df"].rows[j])
                <=> MesmaTriplaNoArquivo(Entrada(ret["df"].rows[i]),
                                         Entrada(ret["df"].rows[j])))
      /\ \A a, b \in DOMAIN df.rows :
           (a /= b /\ Mantida(df.rows[a]) /\ Mantida(df.rows[b])
              /\ MesmaTriplaNoArquivo(df.rows[a], df.rows[b])) =>
             \E i, j \in DOMAIN ret["df"].rows :
               /\ i /= j
               /\ ret["df"].rows[i]["index"] = a - 1
               /\ ret["df"].rows[j]["index"] = b - 1
               /\ MesmaTripla(ret["df"].rows[i], ret["df"].rows[j])

C22_Witness ==
    /\ call = "open_cda_4" /\ exc = "none"
    /\ Tem("CD_ATIVO") /\ Tem("CNPJ_FUNDO") /\ Tem("TP_FUNDO")
    /\ Col(df.rows, "CD_ATIVO") = <<"PETR4", "PETR4">>
    /\ Col(df.rows, "CNPJ_FUNDO") = <<CnpjA, CnpjA>>
    /\ Col(ret["df"].rows, "CD_ATIVO") = <<"PETR4", "PETR4">>
    /\ Col(ret["df"].rows, "CNPJ_FUNDO") = <<CnpjA, CnpjA>>
    /\ Col(ret["df"].rows, "DT_COMPTC") = <<20240131, 20240131>>

(***************************************************************************)
(* Properties of the Category Splitter: zero totals and reporting dates    *)
(***************************************************************************)
\* C23: when the fund's positions of a category are not empty and their
\* market values total zero, the call raises nothing, returns every row of
\* the slice, and each PORCENTAGEM is NaN (value 0) or infinite (value not 0).
C23_TotalZeroSemExcecao ==
    Separou =>
      \A k \in FatiasDe(call) :
        LET pos == Posicoes(cnpj, LabelDe(k))
        IN  (pos /= <<>> /\ TotalFatia(cnpj, LabelDe(k)) = 0) =>
              /\ exc = "none"
              /\ Len(ret[k].rows) = Len(pos)
              /\ \A i \in DOMAIN pos :
                   \E j \in DOMAIN ret[k].rows :
                     /\ ret[k].rows[j]["CD_ATIVO"] = pos[i]["CD_ATIVO"]
                     /\ ret[k].rows[j]["VL_MERC_POS_FINAL"] = pos[i]["VL_MERC_POS_FINAL"]
                     /\ ret[k].rows[j]["PORCENTAGEM"]
                          = [n |-> Sign(pos[i]["VL_MERC_POS_FINAL"]), d |-> 0]

C23_Witness ==
    /\ call = "fundo_cnpj_debentures" /\ exc = "none" /\ cnpj = CnpjA
    /\ Col(df.rows, "TP_APLIC") = <<Debentures, Debentures>>
    /\ Col(df.rows, "VL_MERC_POS_FINAL") = <<100, -100>>
    /\ Col(ret["df_debentures"].rows, "VL_MERC_POS_FINAL") = <<100, -100>>
    /\ Col(ret["df_debentures"].rows, "PORCENTAGEM")
         = <<[n |-> 1, d |-> 0], [n |-> -1, d |-> 0]>>

PorDatas == {"fundo_cnpj_acoes", "fundo_cnpj_opcoes"}

\* the PORCENTAGEM values of the returned rows of one reporting date
DaData(t, d) == Col(SelectSeq(t.rows, LAMBDA r : r["index"] = d), "PORCENTAGEM")

\* the table holds a positive market value at a date other than d
PositivoEmOutraData(t, d) ==
    \E i \in DOMAIN t.rows : t.rows[i]["index"] /= d /\ t.rows[i]["VL_MERC_POS_FINAL"] > 0

VariasDatas(t) == Cardinality({t.rows[i]["index"] : i \in DOMAIN t.rows}) > 1

NaoNegativos(t) == \A i \in DOMAIN t.rows : t.rows[i]["VL_MERC_POS_FINAL"] >= 0

\* the percentages of each reporting date sum to at most 1, and to less than
\* 1 when another date holds a positive value
PorcentagensPorData(t) ==
    \A i \in DOMAIN t.rows :
      LET d == t.rows[i]["index"]
          s == Soma(DaData(t, d))
      IN  /\ s.d > 0 /\ s.n <= s.d
          /\ PositivoEmOutraData(t, d) => s.n < s.d

\* C24 as stated: in fundo_cnpj_acoes and fundo_cnpj_opcoes, when the rows of
\* the category span several reporting dates the percentages sum to 1 over
\* the whole table and, with non-negative values, to at most 1 over each date
\* (less than 1 when another date holds a positive value).
C24_DenominadorDeTodasAsDatas ==
    (call \in PorDatas /\ exc = "none") =>
      \A k \in DOMAIN ret :
        VariasDatas(ret[k]) =>
          /\ Soma(Col(ret[k].rows, "PORCENTAGEM")) = One
          /\ NaoNegativos(ret[k]) => PorcentagensPorData(ret[k])

\* C24 amended: the same, for a category whose market values have a non-zero
\* total; with a zero total no percentage is a finite number.
C24_DenominadorSeTotalNaoNulo ==
    (call \in PorDatas /\ exc = "none") =>
      \A k \in DOMAIN ret :
        VariasDatas(ret[k]) =>
          IF TotalFatia(cnpj, LabelDe(k)) /= 0
          THEN /\ Soma(Col(ret[k].rows, "PORCENTAGEM")) = One
               /\ NaoNegativos(ret[k]) => PorcentagensPorData(ret[k])
          ELSE \A i \in DOMAIN ret[k].rows : ~IsFinite(ret[k].rows[i]["PORCENTAGEM"])

C24_Witness ==
    /\ call = "fundo_cnpj_acoes" /\ exc = "none" /\ cnpj = CnpjA
    /\ Col(ret["df_acoes"].rows, "index") = <<20240131, 20240229, 20240131>>
    /\ Col(ret["df_acoes"].rows, "VL_MERC_POS_FINAL") = <<300, 200, 100>>
    /\ Col(ret["df_acoes"].rows, "PORCENTAGEM")
         = <<[n |-> 1, d |-> 2], [n |-> 1, d |-> 3], [n |-> 1, d |-> 6]>>

(***************************************************************************)
(* comparar_portfolios, rank_top_5 and dy_fii_acumm_12m                     *)
(***************************************************************************)
MaxPortfolios == 3
MaxPosicoes == 3

\* data.strftime("%m/%Y") of a date yyyymmdd: the month and the year
strftime_mY(d) == [m |-> (d \div 100) % 100, Y |-> d \div 10000]

\* faulty variant of vendidas: the difference is taken the other way round
vendidas_invertidas(acoes_anterior, acoes_atual) == acoes_atual \ acoes_anterior

\* vendidas = acoes_anterior - acoes_atual
vendidas(acoes_anterior, acoes_atual) == acoes_anterior \ acoes_atual

\* compradas = acoes_atual - acoes_anterior
compradas(acoes_anterior, acoes_atual) == acoes_atual \ acoes_anterior

\* what comparar_portfolios prints: one block per i in range(1, len(df)); the
\* function returns None
comparar_portfolios(d) ==
    [i \in 1..(Len(d.rows) - 1) |->
       LET mes_atual == d.rows[i + 1]
           mes_anterior == d.rows[i]
       IN  [data_anterior |-> strftime_mY(mes_anterior["data"]),
            data_atual |-> strftime_mY(mes_atual["data"]),
            vendidas |-> vendidas(mes_anterior["CD_ATIVO"], mes_atual["CD_ATIVO"]),
            compradas |-> compradas(mes_anterior["CD_ATIVO"], mes_atual["CD_ATIVO"])]]

\* the position of the largest PORCENTAGEM, the first of equal ones (keep='first')
MaiorDe(rows) ==
    CHOOSE i \in DOMAIN rows :
      \A j \in DOMAIN rows :
        \/ (rows[i]["PORCENTAGEM"] = rows[j]["PORCENTAGEM"] /\ i <= j)
        \/ (rows[i]["PORCENTAGEM"] /= rows[j]["PORCENTAGEM"]
              /\ FracLe(rows[j]["PORCENTAGEM"], rows[i]["PORCENTAGEM"]))

RECURSIVE nlargest(_, _)
\* DataFrame.nlargest(n, 'PORCENTAGEM'): the n largest, in descending order
nlargest(n, rows) ==
    IF n = 0 \/ rows = <<>> THEN <<>>
    ELSE LET m == MaiorDe(rows)
         IN  <<rows[m]>> \o nlargest(n - 1, Selecionadas(rows, (DOMAIN rows) \ {m}))

\* df.loc[data]: the rows of one label of the index
loc_data(d, data) == SelectSeq(d.rows, LAMBDA r : r["index"] = data)

\* rank_top_5: one list of asset codes per date, the dates ascending
\* (groupby sorts its keys). df.loc[data] of a date that has one row is a
\* Series, and Series.nlargest(5, 'PORCENTAGEM') takes 'PORCENTAGEM' for its
\* keep argument and raises ValueError
rank_top_5(d) ==
    LET lst_data == unique(Col(d.rows, "index"))
    IN  IF \E i \in DOMAIN lst_data : Len(loc_data(d, lst_data[i])) = 1
        THEN [error |-> "ValueError"]
        ELSE IF lst_data = <<>>
        THEN [error |-> "ValueError"]   \* pd.concat([]): no objects to concatenate
        ELSE [error |-> "none",
              rows |-> [i \in DOMAIN Ordenada(Range(lst_data)) |->
                          [index |-> Ordenada(Range(lst_data))[i],
                           CD_ATIVO |->
                             Col(nlargest(5, loc_data(d, Ordenada(Range(lst_data))[i])),
                                 "CD_ATIVO")]]]

MaxDy == 13

\* rolling(window=12)
Janela == 12

\* faulty variant of do_ticker: the rows of every ticker are taken
de_todos_os_tickers(d, empresa) == d.rows

\* df.loc[df['Ticker'] == empresa, ...]: the rows of one ticker
do_ticker(d, empresa) == SelectSeq(d.rows, LAMBDA r : r["Ticker"] = empresa)

\* round((x - 1) * 100, 2)
acumulado_pct(x) ==
    Pct(Round(FracMul(FracAdd(x, [n |-> -1, d |-> 1]), [n |-> 100, d |-> 1]), 100))

\* taxa_unitaria.rolling(window=12).agg(prod), (. - 1) * 100 rounded, dropna():
\* the rows before the twelfth of the ticker have no value
dy_acumulado(rows) ==
    [j \in 1..(IF Len(rows) < Janela THEN 0 ELSE Len(rows) - Janela + 1) |->
       [index |-> rows[j + Janela - 1]["index"],
        valor |-> acumulado_pct(
                    prod([k \in 1..Janela |->
                            TrueDiv(100 + rows[j + k - 1]["Percentual_Dividend_Yield_Mes"],
                                    100)]))]]

RECURSIVE uniao_de_indices(_)
\* the index of pd.DataFrame(list of Series).T: the union of the indexes,
\* in the order they are met or sorted
uniao_de_indices(lst) ==
    IF lst = <<>> THEN {<<>>}
    ELSE UNION {concat_index(u, Col(lst[Len(lst)], "index")) :
                  u \in uniao_de_indices(SubSeq(lst, 1, Len(lst) - 1))}

\* dy_fii_acumm_12m: one column per ticker, one row per date that has an
\* accumulated value
dy_fii_acumm_12m(d) ==
    LET empresas == unique(Col(d.rows, "Ticker"))
        lst_dy_accum == [e \in DOMAIN empresas |-> dy_acumulado(do_ticker(d, empresas[e]))]
    IN  {[error |-> "none", columns |-> empresas,
          rows |-> [i \in DOMAIN idx |->
                      [c \in {"index"} \cup Range(empresas) |->
                         IF c = "index" THEN idx[i]
                         ELSE ValorEm([rows |-> lst_dy_accum[CHOOSE e \in DOMAIN empresas :
                                                                 empresas[e] = c]],
                                      "valor", idx[i])]]] :
          idx \in uniao_de_indices(lst_dy_accum)}

AtivosPortfolio == {"PETR4", "VALE3"}
DatasPortfolio == <<20231130, 20231231, 20240131, 20240229>>

\* every table of at most MaxPortfolios monthly portfolios, each a set of codes
TabelaPortfolios(d) ==
    \E n \in 0..MaxPortfolios :
      \E as \in [1..n -> SUBSET AtivosPortfolio] :
        d = [columns |-> <<"data", "CD_ATIVO">>, error |-> "none",
             dtypes |-> [c \in {"data", "CD_ATIVO"} |-> "object"],
             rows |-> [i \in 1..n |->
                         [index |-> i - 1, data |-> DatasPortfolio[i], CD_ATIVO |-> as[i]]]]

AtivosRank == CdAtivos \o <<"WEGE3", "B3SA3", "RENT3">>
PorcentagensRank == {TrueDiv(1, 2), TrueDiv(1, 4)}

TabelaRankDe(ds, ps) ==
    [columns |-> <<"CD_ATIVO", "PORCENTAGEM">>, error |-> "none",
     dtypes |-> [c \in {"CD_ATIVO", "PORCENTAGEM"} |->
                   IF c = "PORCENTAGEM" THEN "float64" ELSE "object"],
     rows |-> [i \in DOMAIN ds |->
                 [index |-> ds[i], CD_ATIVO |-> AtivosRank[i], PORCENTAGEM |-> ps[i]]]]

\* every date-indexed table of at most MaxPosicoes positions
TabelaRank(d) ==
    \E n \in 0..MaxPosicoes :
      \E ds \in [1..n -> Datas], ps \in [1..n -> PorcentagensRank] :
        d = TabelaRankDe(ds, ps)

\* a date with six positions and a date with two: the sixth largest is cut
TabelaRankExemplo(d) ==
    \E primeiro \in 1..6, outra \in Datas :
      d = TabelaRankDe([i \in 1..8 |-> IF i > 6 THEN outra ELSE 20240229],
                       [i \in 1..8 |-> TrueDiv(((i + primeiro) % 6) + 1, 28)])

DYs == {0, 100, 50, -50}

\* the first day of the i-th month counted from January 2023
MesDy(i) == 20230101 + 100 * ((i - 1) % 12) + 10000 * ((i - 1) \div 12)

LinhaDy(ticker, i, dy) ==
    [index |-> MesDy(i), Ticker |-> ticker, Percentual_Dividend_Yield_Mes |-> dy]

\* a ticker with n consecutive months that pays b except in month p, and a
\* ticker with m consecutive months that always pays 100; the rows are kept
\* ticker after ticker or date after date
TabelaDy(d) ==
    \E n \in 0..MaxDy, m \in 0..MaxDy, a \in DYs, b \in DYs \ {-50}, por_data \in BOOLEAN :
      \E p \in 1..(IF n = 0 \/ a = b THEN 1 ELSE n) :
        LET linhas_a == [i \in 1..n |-> LinhaDy("HGLG11", i, IF i = p THEN a ELSE b)]
            linhas_b == [i \in 1..m |-> LinhaDy("KNRI11", i, 100)]
            alternadas == [k \in 1..(2 * MaxDy) |->
                             IF k % 2 = 1 THEN LinhaDy("HGLG11", (k + 1) \div 2,
                                                       IF (k + 1) \div 2 = p THEN a ELSE b)
                             ELSE LinhaDy("KNRI11", k \div 2, 100)]
            presentes == {k \in 1..(2 * MaxDy) :
                            IF k % 2 = 1 THEN (k + 1) \div 2 <= n ELSE k \div 2 <= m}
        IN  d = [columns |-> <<"Ticker", "Percentual_Dividend_Yield_Mes">>,
                 error |-> "none",
                 dtypes |-> [c \in {"Ticker", "Percentual_Dividend_Yield_Mes"} |->
                               IF c = "Ticker" THEN "object" ELSE "float64"],
                 rows |-> IF por_data THEN Selecionadas(alternadas, presentes)
                          ELSE linhas_a \o linhas_b]

InitAnalise ==
    /\ \/ path = "portfolios" /\ TabelaPortfolios(df)
       \/ path = "rank" /\ (TabelaRank(df) \/ TabelaRankExemplo(df))
       \/ path = "dy" /\ TabelaDy(df)
    /\ df_benchmark = SemBenchmark
    /\ precos = SemProvedor
    /\ pedidos = 0
    /\ call = "none"
    /\ cnpj = "none"
    /\ ret = NoRet
    /\ exc = "none"

Call_comparar_portfolios ==
    /\ call = "none" /\ path = "portfolios"
    /\ Returns("comparar_portfolios", "none",
               [stdout |-> [error |-> "none", rows |-> comparar_portfolios(df)]])

Call_rank_top_5 ==
    /\ call = "none" /\ path = "rank"
    /\ Returns("rank_top_5", "none", [rank_portfolio_fundo |-> rank_top_5(df)])

Call_dy_fii_acumm_12m ==
    /\ call = "none" /\ path = "dy"
    /\ \E r \in dy_fii_acumm_12m(df) : Returns("dy_fii_acumm_12m", "none", [df_dy_accum |-> r])

NextAnalise ==
    \/ Call_comparar_portfolios
    \/ Call_rank_top_5
    \/ Call_dy_fii_acumm_12m

SpecAnalise == InitAnalise /\ [][NextAnalise]_vars

(***************************************************************************)
(* Properties of comparar_portfolios, rank_top_5 and dy_fii_acumm_12m      *)
(***************************************************************************)
\* the comparisons that a call of comparar_portfolios printed
Comparacoes == ret.stdout.rows

MesEAno(data) == [m |-> (data \div 100) % 100, Y |-> data \div 10000]

ComparacoesDeLinhasVizinhas ==
    call = "comparar_portfolios" =>
      /\ Len(Comparacoes) = (IF Len(df.rows) = 0 THEN 0 ELSE Len(df.rows) - 1)
      /\ \A i \in DOMAIN Comparacoes :
           LET anterior == df.rows[i]["CD_ATIVO"]
               atual == df.rows[i + 1]["CD_ATIVO"]
           IN  /\ Comparacoes[i].data_anterior = MesEAno(df.rows[i]["data"])
               /\ Comparacoes[i].data_atual = MesEAno(df.rows[i + 1]["data"])
               /\ Comparacoes[i].vendidas = {a \in anterior : a \notin atual}
               /\ Comparacoes[i].compradas = {a \in atual : a \notin anterior}
               /\ Comparacoes[i].vendidas \cap Comparacoes[i].compradas = {}
               /\ \A a \in anterior \cap atual :
                    a \notin Comparacoes[i].vendidas \cup Comparacoes[i].compradas

\* C25: a table of n monthly portfolios yields max(0, n-1) comparisons in row
\* order, the i-th of row i with the row before it; the sold set is the
\* previous set minus the current one, the bought set the current minus the
\* previous, the two are disjoint and hold no asset kept in both months; the
\* call leaves the table as it was
C25_ComparacoesMensais ==
    /\ [](ComparacoesDeLinhasVizinhas)
    /\ [][call' = "comparar_portfolios" => df' = df]_vars

C25_Witness ==
    /\ call = "comparar_portfolios"
    /\ Len(df.rows) = 3
    /\ Len(Comparacoes) = 2
    /\ Comparacoes[1].vendidas /= {} /\ Comparacoes[1].compradas /= {}
    /\ df.rows[2]["CD_ATIVO"] \cap df.rows[3]["CD_ATIVO"] /= {}
    /\ Comparacoes[2].vendidas = {} /\ Comparacoes[2].compradas /= {}

\* the positions of a date in the table handed to rank_top_5
PosicoesDe(data) == {i \in DOMAIN df.rows : df.rows[i]["index"] = data}

Rank == ret.rank_portfolio_fundo.rows

\* the list of date data is the min(5, k) largest positions of that date,
\* from the largest to the smallest
ListaDosMaiores(data) ==
    /\ Cardinality({j \in DOMAIN Rank : Rank[j]["index"] = data}) = 1
    /\ LET lista == Rank[CHOOSE j \in DOMAIN Rank : Rank[j]["index"] = data]["CD_ATIVO"]
           k == Cardinality(PosicoesDe(data))
           pct(c) == df.rows[CHOOSE i \in PosicoesDe(data) :
                               df.rows[i]["CD_ATIVO"] = c]["PORCENTAGEM"]
       IN  /\ Len(lista) = (IF k < 5 THEN k ELSE 5)
           /\ \A a \in DOMAIN lista :
                \E i \in PosicoesDe(data) : df.rows[i]["CD_ATIVO"] = lista[a]
           /\ \A a, b \in DOMAIN lista : a /= b => lista[a] /= lista[b]
           /\ \A a, b \in DOMAIN lista : a < b => FracLe(pct(lista[b]), pct(lista[a]))
           /\ \A i \in PosicoesDe(data) :
                df.rows[i]["CD_ATIVO"] \notin Range(lista) =>
                  \A a \in DOMAIN lista :
                    FracLe(df.rows[i]["PORCENTAGEM"], pct(lista[a]))

\* C28 (as stated): every date of the table, a date with a single position
\* included, gets the list of its min(5, k) largest positions in descending
\* order, made of positions of that date only
C28_TopCincoDeTodaData ==
    call = "rank_top_5" =>
      \A i \in DOMAIN df.rows : exc = "none" /\ ListaDosMaiores(df.rows[i]["index"])

\* what the code does: a table with a date of one position raises, as does
\* a table without rows, and the lists are as described when every date has
\* two positions or more
C28_TopCincoComDuasPosicoes ==
    call = "rank_top_5" =>
      IF \/ \E i \in DOMAIN df.rows : Cardinality(PosicoesDe(df.rows[i]["index"])) = 1
         \/ df.rows = <<>>
      THEN exc = "ValueError"
      ELSE /\ exc = "none"
           /\ \A i \in DOMAIN df.rows : ListaDosMaiores(df.rows[i]["index"])
           /\ Len(Rank) = Cardinality(Range(Col(df.rows, "index")))

\* a date of six positions was cut to five next to a date of two
C28_Witness ==
    /\ call = "rank_top_5" /\ exc = "none"
    /\ \E j \in DOMAIN Rank :
         /\ Cardinality(PosicoesDe(Rank[j]["index"])) = 6
         /\ Len(Rank[j]["CD_ATIVO"]) = 5
    /\ Len(Rank) = 2

Acumulados == ret.df_dy_accum.rows

\* the number of months of a ticker in the table handed to dy_fii_acumm_12m
MesesDe(ticker) == Cardinality({i \in DOMAIN df.rows : df.rows[i]["Ticker"] = ticker})

\* the dividend yield of a ticker in its i-th month
DyDe(ticker, i) ==
    df.rows[CHOOSE j \in DOMAIN df.rows :
              df.rows[j]["Ticker"] = ticker /\ df.rows[j]["index"] = MesDy(i)]
      ["Percentual_Dividend_Yield_Mes"]

RECURSIVE ProdutoAte(_, _, _)
\* the product of (1 + DY/100) over the k months of a ticker that end at month i
ProdutoAte(ticker, i, k) ==
    IF k = 0 THEN One
    ELSE FracMul(TrueDiv(100 + DyDe(ticker, i), 100), ProdutoAte(ticker, i - 1, k - 1))

\* the accumulated value the result holds for a ticker at its i-th month
AcumuladoEm(ticker, i) ==
    IF \E j \in DOMAIN Acumulados : Acumulados[j]["index"] = MesDy(i)
    THEN Acumulados[CHOOSE j \in DOMAIN Acumulados :
                      Acumulados[j]["index"] = MesDy(i)][ticker]
    ELSE NaN

\* C27: a ticker with n consecutive months has max(0, n-11) accumulated
\* values; the value of month t is (the product over the 12 months ending at
\* t of (1 + DY/100), minus 1) * 100 rounded to 2 decimals, computed from the
\* months of that ticker alone, and its first 11 months have no value
C27_AcumuladoDozeMeses ==
    call = "dy_fii_acumm_12m" =>
      \A ticker \in Range(Col(df.rows, "Ticker")) :
        LET n == MesesDe(ticker)
        IN  /\ ticker \in Range(ret.df_dy_accum.columns)
            /\ Cardinality({j \in DOMAIN Acumulados : ~IsNaN(Acumulados[j][ticker])})
                 = (IF n < 12 THEN 0 ELSE n - 11)
            /\ \A i \in 1..n :
                 IF i < 12 THEN IsNaN(AcumuladoEm(ticker, i))
                 ELSE AcumuladoEm(ticker, i) =
                        TrueDiv(Round(FracMul(FracAdd(ProdutoAte(ticker, i, 12),
                                                      [n |-> -1, d |-> 1]),
                                              [n |-> 100, d |-> 1]), 100), 100)

\* one ticker has 13 months and two different accumulated values, the other
\* has 12 months and one value, the rows are kept date after date, and a value
\* had to be rounded
C27_Witness ==
    /\ call = "dy_fii_acumm_12m"
    /\ MesesDe("HGLG11") = 13 /\ MesesDe("KNRI11") = 12
    /\ Len(Acumulados) = 2
    /\ ~IsNaN(Acumulados[1]["KNRI11"]) /\ IsNaN(Acumulados[2]["KNRI11"])
    /\ Acumulados[1]["HGLG11"] /= Acumulados[2]["HGLG11"]
    /\ Acumulados[1]["HGLG11"] /= Acumulados[1]["KNRI11"]
    /\ df.rows[2]["Ticker"] = "KNRI11"
    /\ Acumulados[1]["HGLG11"] /=
         FracMul(FracAdd(ProdutoAte("HGLG11", 12, 12), [n |-> -1, d |-> 1]),
                 [n |-> 100, d |-> 1])

(***************************************************************************)
(* Properties of fii_cnpj: the months of the download                      *)
(***************************************************************************)
\* the last month of the table handed to fii_cnpj
UltimoMes == df.rows[Len(df.rows)]["index"]

\* the selected FII has a row in the last month and the provider a price
FiiEPrecoNoUltimoMes ==
    /\ \E i \in DOMAIN df.rows :
         df.rows[i]["index"] = UltimoMes /\ df.rows[i]["CNPJ_Fundo"] = CnpjA
    /\ \E k \in DOMAIN precos.Close : to_period_M(DiasPreco[k]) = to_period_M(UltimoMes)

\* the download ends after the last month and the result has its row
UltimoMesNoResultado ==
    /\ to_period_M(ret.pedido.end) > to_period_M(UltimoMes)
    /\ FiiEPrecoNoUltimoMes => \E j \in DOMAIN ret.rows : ret.rows[j]["index"] = UltimoMes

\* C26 (as stated): whatever the last month of the table, January to
\* December, the end of the price download lies after the last day of that
\* month, and the result has a row for it when the FII and a price exist
C26_UltimoMesBaixado ==
    (call = "fii_cnpj" /\ exc = "none") => UltimoMesNoResultado

\* what the code does: so it is unless the last month is December; then the
\* download ends on December 1st and the result has no row for December
C26_UltimoMesSalvoDezembro ==
    (call = "fii_cnpj" /\ exc = "none") =>
      IF month(UltimoMes) /= 12 THEN UltimoMesNoResultado
      ELSE /\ ret.pedido.end = year(UltimoMes) * 10000 + 1201
           /\ \A j \in DOMAIN ret.rows : ret.rows[j]["index"] /= UltimoMes

\* a table from November to January got its three monthly rows
C26_Witness ==
    /\ call = "fii_cnpj" /\ exc = "none"
    /\ Len(df.rows) = 6 /\ UltimoMes = 20240101
    /\ Len(ret.rows) = 3
    /\ ret.rows[3]["index"] = 20240101
    /\ ret.rows[3]["P/VP"] = Pct(95)

\* a table that ends in December, with a December price at the provider,
\* got no December row
C26_DezembroSemLinha ==
    /\ call = "fii_cnpj" /\ exc = "none"
    /\ UltimoMes = 20231201 /\ FiiEPrecoNoUltimoMes
    /\ Len(df.rows) = 4
    /\ Len(ret.rows) = 1

(***************************************************************************)
(* Properties of rentabilidade_fundo: the rows of the annual table         *)
(***************************************************************************)
\* the return of the i-th observed month over the one before it, rounded to
\* 2 decimals
RetornoArredondado(i) ==
    LET ms == MesesObservados
    IN  Pct(Round(TrueDiv(UltimaCota(ms[i]) - UltimaCota(ms[i - 1]), UltimaCota(ms[i - 1])),
                  10000))

\* the rounded monthly returns of the months of year y, the first observed
\* month left out
ArredondadosDoAno(y) ==
    LET ms == MesesObservados
        doAno == SelectSeq([i \in 1..(Len(ms) - 1) |-> i + 1], LAMBDA i : ms[i] \div 100 = y)
    IN  [k \in DOMAIN doAno |-> RetornoArredondado(doAno[k])]

\* C29: the annual table has exactly one row for each calendar year that
\* holds a monthly return, in chronological order; the year of the first
\* observed month has a row only if a later month of that year is observed;
\* the annual value compounds the monthly returns already rounded to 2
\* decimals
C29_LinhasAnuais ==
    (call = "rentabilidade_fundo" /\ exc = "none") =>
      LET ms == MesesObservados
          anual == ret["df_ret_anual"].rows
          anos == Col(anual, "index")
      IN  /\ anos = Ordenada({ms[i] \div 100 : i \in 2..Len(ms)})
          /\ Len(ms) > 0 =>
               (ms[1] \div 100 \in Range(anos)
                  <=> \E i \in 2..Len(ms) : ms[i] \div 100 = ms[1] \div 100)
          /\ \A k \in DOMAIN anual :
               anual[k][ColRet] =
                 Pct(Round(FracAdd(Composto(ArredondadosDoAno(anos[k])),
                                   [n |-> -1, d |-> 1]), 10000))

\* December, January and February quotas of 105, 98 and 100: the year of the
\* first month has no row, and 2023 compounds -6.67 and 2.04 into -4.77
\* where the quotas themselves give -4.76
C29_Witness ==
    /\ call = "rentabilidade_fundo" /\ exc = "none" /\ cnpj = CnpjA
    /\ Col(df.rows, "index") = <<20221230, 20230131, 20230228>>
    /\ Col(df.rows, "CNPJ_FUNDO") = <<CnpjA, CnpjA, CnpjA>>
    /\ Col(df.rows, "VL_QUOTA") = <<105, 98, 100>>
    /\ Col(ret["df_ret_anual"].rows, "index") = <<2023>>
    /\ ret["df_ret_anual"].rows[1][ColRet] = [n |-> -477, d |-> 100]
    /\ Pct(Round(TrueDiv(100 - 105, 105), 10000)) = [n |-> -119, d |-> 25]

====
